---- MODULE Spec2Model ----
(***************************************************************************)
(* The hierarchical time-integration core of MP-Gadget (src/timestep.c):   *)
(* the integer timeline, the bin registry (TimeBinCount, TimeBinActive,    *)
(* ActiveParticle), the kick engine (advance_and_find_timesteps,           *)
(* apply_half_kick) and the synchronizer (find_next_kick,                  *)
(* update_active_timebins), driven by the loop                             *)
(*   find_next_kick -> Ti_Current := result -> update_active_timebins      *)
(*   -> rebuild_activelist -> advance_and_find_timesteps.                  *)
(* All MPI ranks run the loop in lockstep (every collective is a          *)
(* barrier), so one action is one driver call executed on every rank.      *)
(* The timeline is scaled down: TIMEBASE = 2^TimeBaseBits ticks.           *)
(***************************************************************************)
EXTENDS Integers, Sequences, FiniteSets, TLC

(* ------------------------------ bounds -------------------------------- *)
\* Number of particles in the whole simulation.
NumPartTotal == 2
\* Number of MPI ranks.
NRanks == 2
\* T of the data model: TIMEBASE = 2^T (29 in production, scaled down).
TimeBaseBits == 6
\* Number of whole timelines (snapshot bits) the arguments of a direct
\* find_next_kick call range over.
MaxSnap == 1
\* The driver loop is followed until Ti_Current reaches this tick.
MaxTick == 16

(* ---------------------------- constants ------------------------------- *)
Pow2(n) == IF n <= 0 THEN 1 ELSE 2 ^ n

TIMEBASE == Pow2(TimeBaseBits)
TIMEBINS == TimeBaseBits + 1

Bins == 0 .. (TIMEBINS - 1)
Types == 0 .. 5
Ranks == 1 .. NRanks
Particles == 1 .. NumPartTotal

\* Particle i lives on rank RankOf(i): two particles per rank, ranks filled
\* in order (a rank may hold no particle at all).
RankOf(i) == (((i - 1) \div 2) % NRanks) + 1
\* P[i].Type, fixed for the run: gas, halo, disk, ...
TypeOf(i) == (i - 1) % 6
\* The local particles of a rank, in increasing index order (NumPart of them).
LocalParticles(r) == SelectSeq([k \in 1 .. NumPartTotal |-> k], LAMBDA k : RankOf(k) = r)

\* Values dti_from_dloga may hand to the timestep selector and to the
\* long-range step: zero, one, a non-power of two, powers of two, and one
\* value beyond TIMEBASE (which rounds down to TIMEBASE itself).
DtiInputs == {0, 1, 3, TIMEBASE + 1} \cup {Pow2(k) : k \in 2 .. (TimeBaseBits - 1)}

NoReq == 0 - 2
NoCall == << >>

\* The all-reduces of one pass of the driver loop, in the order of the code.
Collectives == {"kick", "equal", "bad"}
NoContribution == [k \in Collectives |-> [r \in Ranks |-> NoReq]]
NothingGot == [k \in Collectives |-> NoReq]

\* Worker threads of one rank in an omp parallel for.
NThreads == 2
Threads == 1 .. NThreads
\* A worker that is in no iteration.
Idle == [at |-> "idle"]

(* ----------------------------- state ---------------------------------- *)
VARIABLES
    Ti_Current,        \* All.Ti_Current
    P,                 \* P[i]: TimeBin, Ti_begstep, Ti_kick (DEBUG)
    PM_Ti,             \* the PM super-step: start, step
    TimeBinCount,      \* per rank: TimeBinCount[b]
    TimeBinCountType,  \* per rank: TimeBinCountType[type][b]
    TimeBinActive,     \* TimeBinActive[b], the same on every rank
    ActiveParticle,    \* per rank: ActiveParticle[0..NumActiveParticle)
    pc,                \* the driver's position in its loop
    kick_arg,          \* argument of the most recent find_next_kick call
    bin_req,           \* bin requested for each particle in the most recent
                       \* advance_and_find_timesteps (NoReq: not active)
    bin_old,           \* binold of each particle in that call (NoReq: not active)
    sr_kick,           \* per particle: the <<tistart, tiend>> of the calls of
                       \* do_the_short_range_kick since the last find_next_kick
    lr_kick,           \* the <<tistart, tiend>> of the calls of
                       \* do_the_long_range_kick since the last find_next_kick
    adv,               \* locals of an advance_and_find_timesteps call that has
                       \* not returned (NoCall: no such call)
    full_kick,         \* for a call with do_half_kick: what the same call without
                       \* do_half_kick gives (NoCall: no such call at this sync point)
    ForceEqualTimesteps, \* All.ForceEqualTimesteps
    ti_min,            \* per rank: ti_min of the equalization loop
    ti_min_glob,       \* ti_min_glob, the same on every rank after the all-reduce
    omp_todo,          \* per rank: the iterations pa of the running omp parallel
                       \* for that no worker has started
    omp_thread,        \* per rank and worker thread: its place in an iteration
                       \* and its private values
    rank_pc,           \* per rank: its position among the three all-reduces
    allreduce,         \* per all-reduce and rank: the value the rank has handed in
                       \* (NoReq: none yet)
    rank_got,          \* per rank: the results of the all-reduces it has left
                       \* (NoReq: not yet)
    NumForceUpdate,    \* per rank: the value update_active_timebins returned, where
                       \* the call is looked at on its own (NoReq: no such call)
    call               \* a direct call of a function without side effects on the
                       \* timeline: its name, arguments and result (NoCall: none)

\* The timeline bookkeeping.
timeline == <<Ti_Current, P, PM_Ti, TimeBinCount, TimeBinCountType, TimeBinActive,
              ActiveParticle, pc, kick_arg, bin_req, bin_old>>
\* What is followed only where the kicks themselves and the inside of a call
\* are looked at.
detail == <<sr_kick, lr_kick, adv, full_kick>>

\* What is followed only where the worker threads of the parallel loops of
\* advance_and_find_timesteps are looked at.
threads == <<ForceEqualTimesteps, ti_min, ti_min_glob, omp_todo, omp_thread>>

\* What is followed only where the ranks are taken one by one.
ranks == <<rank_pc, allreduce, rank_got>>

vars == <<timeline, detail, threads, ranks, NumForceUpdate, call>>

NumActiveParticle(r) == Len(ActiveParticle[r])
ActiveSet(r) == {ActiveParticle[r][k] : k \in 1 .. Len(ActiveParticle[r])}
AllActive == UNION {ActiveSet(r) : r \in Ranks}

(* ------------------------- pure functions ----------------------------- *)
get_kick_ti(start, step) == start + (step \div 2)

\* dti <- 2^floor(log2(dti)); zero stays zero.
RECURSIVE round_down_power_of_two(_)
round_down_power_of_two(dti) ==
    IF dti <= 0 THEN 0
    ELSE IF dti = 1 THEN 1
    ELSE 2 * round_down_power_of_two(dti \div 2)

\* while(dti) { bin++; dti >>= 1; } starting from bin = -1
RECURSIVE CountShifts(_, _)
CountShifts(dti, bin) ==
    IF dti = 0 THEN bin ELSE CountShifts(dti \div 2, bin + 1)

\* A variant whose loop starts from bin = 0.
get_timestep_bin_FromZero(dti) ==
    IF dti = 0 THEN 0
    ELSE IF dti = 1 THEN 0 - 1
    ELSE CountShifts(dti, 0)

get_timestep_bin(dti) ==
    IF dti = 0 THEN 0
    ELSE IF dti = 1 THEN 0 - 1
    ELSE CountShifts(dti, 0 - 1)

\* A variant that gives bin 0 the step 1 << 0.
BinStep_NoZero(bin) == Pow2(bin)

\* dti = bin ? (1 << bin) : 0
BinStep(bin) == IF bin # 0 THEN Pow2(bin) ELSE 0

is_PM_timestep(ti) == ti = PM_Ti.start + PM_Ti.step

\* raw is dti_from_dloga(dloga) of the particle.
get_timestep_ti(raw, dti_max) ==
    IF dti_max = 0 THEN 0
    ELSE IF raw > dti_max THEN dti_max
    ELSE raw

\* raw is dti_from_dloga(get_long_range_timestep_dloga()).
get_long_range_timestep_ti(raw) == round_down_power_of_two(raw)

Min(S) == CHOOSE x \in S : \A y \in S : x <= y
Max(S) == CHOOSE x \in S : \A y \in S : x >= y

(* --------------------------- synchronizer ----------------------------- *)
\* snap = Ti_Current & ~(TIMEBASE-1)
SnapBits(ti) == ti - (ti % TIMEBASE)
\* Ti_Current &= TIMEBASE-1
LowBits(ti) == ti % TIMEBASE

\* A variant that sets the bit of the bin above the next boundary.
NextForBin_SkipsOne(ticur, n) == (ticur \div Pow2(n)) * Pow2(n) + 2 * Pow2(n)

\* (Ti_Current / dt_bin) * dt_bin + dt_bin, with dt_bin = 1 << n
NextForBin(ticur, n) == (ticur \div Pow2(n)) * Pow2(n) + Pow2(n)

\* A variant that always seeds the search with Ti_Current.
KickSeed_Current(count, ti) == ti

\* ti_next_kick = TIMEBASE; if(TimeBinCount[0]) ti_next_kick = Ti_Current;
\* the seed is taken before the snapshot bits are masked off.
KickSeed(count, ti) == IF count[0] # 0 THEN ti ELSE TIMEBASE

\* for(n = 1; n < TIMEBINS; n++) over the masked Ti_Current
RECURSIVE KickLoop(_, _, _, _)
KickLoop(count, ticur, n, best) ==
    IF n >= TIMEBINS THEN best
    ELSE IF count[n] = 0 THEN KickLoop(count, ticur, n + 1, best)
    ELSE IF NextForBin(ticur, n) < best
         THEN KickLoop(count, ticur, n + 1, NextForBin(ticur, n))
         ELSE KickLoop(count, ticur, n + 1, best)

\* A variant that does not put the snapshot bits back.
LocalNextKick_NoSnap(count, ti) ==
    KickLoop(count, LowBits(ti), 1, KickSeed(count, ti))

\* The value a rank contributes to the all-reduce.
LocalNextKick(count, ti) ==
    KickLoop(count, LowBits(ti), 1, KickSeed(count, ti)) + SnapBits(ti)

\* MPI_Allreduce(..., MPI_MIN, ...)
find_next_kick(ti) == Min({LocalNextKick(TimeBinCount[r], ti) : r \in Ranks})

(* --------------------------- bin registry ----------------------------- *)
\* A variant that marks every bin active.
ActiveMask_AllBins(next_kick) == [b \in Bins |-> 1]

\* update_active_timebins: the new mask
ActiveMask(next_kick) ==
    [b \in Bins |-> IF b = 0 THEN 1
                    ELSE IF next_kick % Pow2(b) = 0 THEN 1 ELSE 0]

\* A variant that counts the particles of active bins only.
CountInBin_ActiveOnly(r, b) ==
    Cardinality({i \in Particles : /\ RankOf(i) = r
                                   /\ P[i].TimeBin = b
                                   /\ TimeBinActive[b] # 0})

\* rebuild_activelist: the counts and the list of one rank
CountInBin(r, b) == Cardinality({i \in Particles : RankOf(i) = r /\ P[i].TimeBin = b})
CountTypeInBin(r, ty, b) ==
    Cardinality({i \in Particles : RankOf(i) = r /\ TypeOf(i) = ty /\ P[i].TimeBin = b})
\* A variant that lists every local particle.
RebuiltList_All(r) == LocalParticles(r)
\* rebuild_activelist: the list of one rank, in particle order
RebuiltList(r) == SelectSeq(LocalParticles(r), LAMBDA i : TimeBinActive[P[i].TimeBin] # 0)

(* ---------------------------- kick engine ----------------------------- *)
\* A variant with `if` in place of `while`.
WalkDown_Once(bin, binold) ==
    IF TimeBinActive[bin] = 0 /\ bin > binold THEN bin - 1 ELSE bin

\* while(TimeBinActive[bin] == 0 && bin > binold) bin--;
RECURSIVE WalkDown(_, _)
WalkDown(bin, binold) ==
    IF TimeBinActive[bin] = 0 /\ bin > binold THEN WalkDown(bin - 1, binold) ELSE bin

\* The bin get_timestep_bin derives from the rounded step of a particle.
RequestedBin(raw, dti_max) ==
    get_timestep_bin(round_down_power_of_two(get_timestep_ti(raw, dti_max)))

\* A variant without the upward movement guard.
FinalBin_NoGuard(bin, binold) == bin

\* The bin after the upward movement guard.
FinalBin(bin, binold) == IF bin > binold THEN WalkDown(bin, binold) ELSE bin

\* A variant that keeps the requested step when the guard lowers the bin.
FinalDti_Requested(raw, dti_max, binold) ==
    round_down_power_of_two(get_timestep_ti(raw, dti_max))

\* dti after the guard: recomputed from the bin only when the step wanted to grow.
FinalDti(raw, dti_max, binold) ==
    IF RequestedBin(raw, dti_max) > binold
    THEN BinStep(FinalBin(RequestedBin(raw, dti_max), binold))
    ELSE round_down_power_of_two(get_timestep_ti(raw, dti_max))

\* A variant that starts the kick at the beginning of the old step.
KickStart_Begstep(p) == p.Ti_begstep

\* tistart of the short-range kick of an active particle
KickStart(p) == get_kick_ti(p.Ti_begstep, BinStep(p.TimeBin))

\* tiend of the short-range kick of an active particle
KickEnd(p, dti, do_half_kick) ==
    IF do_half_kick THEN p.Ti_begstep + BinStep(p.TimeBin)
    ELSE get_kick_ti(p.Ti_begstep + BinStep(p.TimeBin), dti)

\* A variant that advances Ti_begstep by the new step, not the old one.
AdvanceParticle_NewStep(p, raw, dti_max, do_half_kick) ==
    [TimeBin    |-> FinalBin(RequestedBin(raw, dti_max), p.TimeBin),
     Ti_begstep |-> p.Ti_begstep + FinalDti(raw, dti_max, p.TimeBin),
     Ti_kick    |-> KickEnd(p, FinalDti(raw, dti_max, p.TimeBin), do_half_kick)]

\* One pass of the particle loop over an active particle.
AdvanceParticle(p, raw, dti_max, do_half_kick) ==
    [TimeBin    |-> FinalBin(RequestedBin(raw, dti_max), p.TimeBin),
     Ti_begstep |-> p.Ti_begstep + BinStep(p.TimeBin),
     Ti_kick    |-> KickEnd(p, FinalDti(raw, dti_max, p.TimeBin), do_half_kick)]

\* A variant that forgets to decrement the old bin.
MoveCount_NoDecrement(count, binold, bin) ==
    [b \in Bins |-> count[b] + (IF b = bin THEN 1 ELSE 0)]

\* atomic_fetch_and_add(&TimeBinCount[binold],-1); atomic_fetch_and_add(&TimeBinCount[bin],1)
\* on the registry of one rank (an index outside the array changes no counter).
MoveCount(count, binold, bin) ==
    [b \in Bins |-> count[b] - (IF b = binold THEN 1 ELSE 0) + (IF b = bin THEN 1 ELSE 0)]

\* if(bin != binold) { ... }: the counters after the particle loop has handled
\* the particles of `todo`; the additions commute, so any order gives this.
RECURSIVE MigrateCounts(_, _, _)
MigrateCounts(count, todo, newP) ==
    IF todo = {} THEN count
    ELSE LET i == CHOOSE k \in todo : TRUE
             r == RankOf(i)
         IN  MigrateCounts(
                 IF newP[i].TimeBin # P[i].TimeBin
                 THEN [count EXCEPT ![r] = MoveCount(@, P[i].TimeBin, newP[i].TimeBin)]
                 ELSE count,
                 todo \ {i}, newP)

RECURSIVE MigrateCountsType(_, _, _)
MigrateCountsType(count, todo, newP) ==
    IF todo = {} THEN count
    ELSE LET i == CHOOSE k \in todo : TRUE
             r == RankOf(i)
         IN  MigrateCountsType(
                 IF newP[i].TimeBin # P[i].TimeBin
                 THEN [count EXCEPT ![r][TypeOf(i)] =
                          MoveCount(@, P[i].TimeBin, newP[i].TimeBin)]
                 ELSE count,
                 todo \ {i}, newP)

(* ------------------------------ Init ---------------------------------- *)
\* init_timebins on every rank, before the first rebuild_activelist: every
\* particle in bin 0 at tick 0, empty registry, all bins marked active.
Init ==
    /\ Ti_Current = 0
    /\ P = [i \in Particles |-> [TimeBin |-> 0, Ti_begstep |-> 0, Ti_kick |-> 0]]
    /\ PM_Ti = [start |-> 0, step |-> 0]
    /\ TimeBinCount = [r \in Ranks |-> [b \in Bins |-> 0]]
    /\ TimeBinCountType = [r \in Ranks |-> [ty \in Types |-> [b \in Bins |-> 0]]]
    /\ TimeBinActive = ActiveMask(0)
    /\ ActiveParticle = [r \in Ranks |-> << >>]
    /\ pc = "setup"
    /\ kick_arg = NoReq
    /\ bin_req = [i \in Particles |-> NoReq]
    /\ bin_old = [i \in Particles |-> NoReq]
    /\ sr_kick = [i \in Particles |-> << >>]
    /\ lr_kick = << >>
    /\ adv = NoCall
    /\ full_kick = NoCall
    /\ ForceEqualTimesteps = FALSE
    /\ ti_min = [r \in Ranks |-> NoReq]
    /\ ti_min_glob = TIMEBASE
    /\ omp_todo = [r \in Ranks |-> {}]
    /\ omp_thread = [r \in Ranks |-> [t \in Threads |-> Idle]]
    /\ rank_pc = [r \in Ranks |-> "lockstep"]
    /\ allreduce = NoContribution
    /\ rank_got = [r \in Ranks |-> NothingGot]
    /\ NumForceUpdate = [r \in Ranks |-> NoReq]
    /\ call = NoCall

(* ----------------------------- actions -------------------------------- *)
\* All.Ti_Current = find_next_kick(All.Ti_Current)
FindNextKick ==
    /\ pc = "find"
    /\ Ti_Current' = find_next_kick(Ti_Current)
    /\ kick_arg' = Ti_Current
    /\ bin_req' = [i \in Particles |-> NoReq]
    /\ bin_old' = [i \in Particles |-> NoReq]
    /\ pc' = "update"
    /\ UNCHANGED <<P, PM_Ti, TimeBinCount, TimeBinCountType, TimeBinActive, ActiveParticle>>

\* update_active_timebins(All.Ti_Current)
UpdateActiveTimebins ==
    /\ pc = "update"
    /\ TimeBinActive' = ActiveMask(Ti_Current)
    /\ kick_arg' = NoReq
    /\ pc' = "rebuild"
    /\ UNCHANGED <<Ti_Current, P, PM_Ti, TimeBinCount, TimeBinCountType, ActiveParticle,
                   bin_req, bin_old>>

\* rebuild_activelist(), at set-up and once per sync point
RebuildActivelist ==
    /\ pc \in {"setup", "rebuild"}
    /\ TimeBinCount' = [r \in Ranks |-> [b \in Bins |-> CountInBin(r, b)]]
    /\ TimeBinCountType' =
           [r \in Ranks |-> [ty \in Types |-> [b \in Bins |-> CountTypeInBin(r, ty, b)]]]
    /\ ActiveParticle' = [r \in Ranks |-> RebuiltList(r)]
    /\ pc' = IF pc = "setup" THEN "find" ELSE "advance"
    /\ UNCHANGED <<Ti_Current, P, PM_Ti, TimeBinActive, kick_arg, bin_req, bin_old>>

\* The particle loop of advance_and_find_timesteps over the active lists.
AdvanceLoop(act, raw, newPM, do_half_kick) ==
    [i \in Particles |->
        IF i \in act
        THEN AdvanceParticle(P[i], raw[i], newPM, do_half_kick)
        ELSE P[i]]

\* new_PM_Ti_step
NewPMStep(pmraw) ==
    IF is_PM_timestep(Ti_Current) THEN get_long_range_timestep_ti(pmraw) ELSE PM_Ti.step

\* The second is_PM_timestep block: PM_Ti.start += PM_Ti.step; PM_Ti.step = new.
AdvancePM(newPM) ==
    IF is_PM_timestep(Ti_Current)
    THEN [start |-> PM_Ti.start + PM_Ti.step, step |-> newPM]
    ELSE PM_Ti

\* The bins the active particles ask for (bin, before the upward guard).
Requests(act, raw, newPM) ==
    [i \in Particles |-> IF i \in act THEN RequestedBin(raw[i], newPM) ELSE NoReq]

\* advance_and_find_timesteps(do_half_kick) on the active particles act;
\* pmraw and raw are what the long-range and the per-particle timestep
\* criteria evaluate to.
Advance(act, do_half_kick, pmraw, raw) ==
    \E newPM \in {NewPMStep(pmraw)} :
    \E newP \in {AdvanceLoop(act, raw, newPM, do_half_kick)} :
    \E req \in {Requests(act, raw, newPM)} :
    \E badstepsizecount_global \in {Cardinality({i \in act : req[i] < 1})} :
    \E mismatch \in {\E i \in act : P[i].Ti_kick # KickStart(P[i])} :
        /\ pc = "advance"
        /\ P' = newP
        /\ bin_req' = req
        /\ bin_old' = [i \in Particles |-> IF i \in act THEN P[i].TimeBin ELSE NoReq]
        /\ TimeBinCount' = MigrateCounts(TimeBinCount, act, newP)
        /\ TimeBinCountType' = MigrateCountsType(TimeBinCountType, act, newP)
        /\ PM_Ti' = IF badstepsizecount_global = 0 /\ ~mismatch
                    THEN AdvancePM(newPM) ELSE PM_Ti
        /\ pc' = IF mismatch THEN "endrun_kick"
                 ELSE IF badstepsizecount_global # 0 THEN "endrun_badstep"
                 ELSE IF do_half_kick THEN "halfkick"
                 ELSE "find"
        /\ UNCHANGED <<Ti_Current, TimeBinActive, ActiveParticle, kick_arg>>

\* apply_half_kick(), after the snapshot that followed a half kick
ApplyHalfKick ==
    LET mismatch == \E i \in AllActive : P[i].Ti_kick # P[i].Ti_begstep
    IN  /\ pc = "halfkick"
        /\ P' = [i \in Particles |->
                    IF i \in AllActive
                    THEN [P[i] EXCEPT !.Ti_kick = get_kick_ti(P[i].Ti_begstep, BinStep(P[i].TimeBin))]
                    ELSE P[i]]
        /\ pc' = IF mismatch THEN "endrun_kick" ELSE "find"
        /\ UNCHANGED <<Ti_Current, PM_Ti, TimeBinCount, TimeBinCountType, TimeBinActive,
                       ActiveParticle, kick_arg, bin_req, bin_old>>

\* The timestep criteria's values for one advance_and_find_timesteps call:
\* the long-range criterion is evaluated at a PM boundary only, and every
\* particle value beyond dti_max is clipped to it, so one such value is enough.
PMInputs == IF is_PM_timestep(Ti_Current) THEN DtiInputs ELSE {0}
RawInputs(dti_max) ==
    {d \in DtiInputs : d <= dti_max} \cup {Min({d \in DtiInputs : d > dti_max})}

\* The driver loop; it ends when the timeline is used up.
Next ==
    \/ Ti_Current < MaxTick /\ FindNextKick /\ UNCHANGED <<detail, threads, ranks, NumForceUpdate, call>>
    \/ UpdateActiveTimebins /\ UNCHANGED <<detail, threads, ranks, NumForceUpdate, call>>
    \/ RebuildActivelist /\ UNCHANGED <<detail, threads, ranks, NumForceUpdate, call>>
    \/ /\ pc = "advance"
       /\ \E act \in {AllActive} :
          \E h \in BOOLEAN, pmraw \in PMInputs :
          \E raw \in [act -> RawInputs(NewPMStep(pmraw))] :
             Advance(act, h, pmraw, raw)
       /\ UNCHANGED <<detail, threads, ranks, NumForceUpdate, call>>
    \/ ApplyHalfKick /\ UNCHANGED <<detail, threads, ranks, NumForceUpdate, call>>

Spec == Init /\ [][Next]_vars

(* --------------------- the loop with fixed bins ----------------------- *)
\* The timestep criteria ask for a bin >= 1 at start-up and, from then on,
\* for the bin each particle is already in.
FixedRequests(act, raw, newPM) ==
    \A i \in act :
        IF P[i].TimeBin = 0
        THEN RequestedBin(raw[i], newPM) >= 1
        ELSE RequestedBin(raw[i], newPM) = P[i].TimeBin

\* The driver loop over the whole timeline, bins held fixed.
NextFixed ==
    \/ Ti_Current < TIMEBASE /\ FindNextKick /\ UNCHANGED <<detail, threads, ranks, NumForceUpdate, call>>
    \/ UpdateActiveTimebins /\ UNCHANGED <<detail, threads, ranks, NumForceUpdate, call>>
    \/ RebuildActivelist /\ UNCHANGED <<detail, threads, ranks, NumForceUpdate, call>>
    \/ /\ pc = "advance"
       /\ \E act \in {AllActive} :
          \E h \in BOOLEAN, pmraw \in PMInputs :
          \E raw \in [act -> RawInputs(NewPMStep(pmraw))] :
             /\ FixedRequests(act, raw, NewPMStep(pmraw))
             /\ Advance(act, h, pmraw, raw)
       /\ UNCHANGED <<detail, threads, ranks, NumForceUpdate, call>>
    \/ ApplyHalfKick /\ UNCHANGED <<detail, threads, ranks, NumForceUpdate, call>>

SpecFixed == Init /\ [][NextFixed]_vars

(* ------------------ the loop over the whole timeline ------------------ *)
\* The long-range criterion over the whole timeline: half of it or all of it.
LoopPMInputs == IF is_PM_timestep(Ti_Current) THEN {TIMEBASE \div 2, TIMEBASE} ELSE {0}

\* The driver loop of Spec, run until Ti_Current reaches TIMEBASE.
NextLoop ==
    \/ Ti_Current < TIMEBASE /\ FindNextKick /\ UNCHANGED <<detail, threads, ranks, NumForceUpdate, call>>
    \/ UpdateActiveTimebins /\ UNCHANGED <<detail, threads, ranks, NumForceUpdate, call>>
    \/ RebuildActivelist /\ UNCHANGED <<detail, threads, ranks, NumForceUpdate, call>>
    \/ /\ pc = "advance"
       /\ \E act \in {AllActive} :
          \E h \in BOOLEAN, pmraw \in LoopPMInputs :
          \E raw \in [act -> RawInputs(NewPMStep(pmraw))] :
             Advance(act, h, pmraw, raw)
       /\ UNCHANGED <<detail, threads, ranks, NumForceUpdate, call>>
    \/ ApplyHalfKick /\ UNCHANGED <<detail, threads, ranks, NumForceUpdate, call>>

\* The driver calls one function after the other and every call returns (its
\* loops are bounded), so a step that can be taken is taken.
SpecLoop == Init /\ [][NextLoop]_vars /\ WF_vars(NextLoop)

(* ------- advance_and_find_timesteps, statement by statement ----------- *)
\* Spec and SpecFixed take a call of advance_and_find_timesteps as one step
\* and follow the timeline only.  SpecSteps follows the same loop through the
\* statements of the call and keeps the intervals of the kicks.

\* The loop is followed until Ti_Current reaches this tick.
MaxStepTick == 4

RECURSIVE SumOver(_, _)
SumOver(f, S) ==
    IF S = {} THEN 0
    ELSE LET x == CHOOSE y \in S : TRUE IN f[x] + SumOver(f, S \ {x})

\* do_the_short_range_kick(i, tistart, tiend) in the particle loop: the
\* intervals, added to those already applied.
ShortKicks(act, newP) ==
    [i \in Particles |->
        IF i \in act
        THEN Append(sr_kick[i], <<KickStart(P[i]), newP[i].Ti_kick>>)
        ELSE sr_kick[i]]

\* A variant whose long-range kick always runs to the midpoint of the new step.
LongKickEnd_NoHalf(newPM, do_half_kick) ==
    get_kick_ti(PM_Ti.start + PM_Ti.step, newPM)

\* tistart and tiend of the long-range kick of the PM block
LongKickStart == get_kick_ti(PM_Ti.start, PM_Ti.step)
LongKickEnd(newPM, do_half_kick) ==
    IF do_half_kick THEN PM_Ti.start + PM_Ti.step
    ELSE get_kick_ti(PM_Ti.start + PM_Ti.step, newPM)

\* do_the_short_range_kick(i, tistart, tiend) in apply_half_kick
HalfShortKicks ==
    [i \in Particles |->
        IF i \in AllActive
        THEN Append(sr_kick[i],
                    <<P[i].Ti_begstep, get_kick_ti(P[i].Ti_begstep, BinStep(P[i].TimeBin))>>)
        ELSE sr_kick[i]]

\* A variant whose PM kick runs over the whole PM step.
HalfLongKicks_WholeStep == Append(lr_kick, <<PM_Ti.start, PM_Ti.start + PM_Ti.step>>)

\* do_the_long_range_kick(tistart, tiend) in apply_half_kick
HalfLongKicks == Append(lr_kick, <<PM_Ti.start, get_kick_ti(PM_Ti.start, PM_Ti.step)>>)

\* advance_and_find_timesteps(0) as a whole on the present state: the
\* particles, the PM super-step and the kicks it gives when no step is bad.
FullKick(raw, newPM) ==
    LET newP == AdvanceLoop(AllActive, raw, newPM, FALSE)
    IN  [P       |-> newP,
         PM_Ti   |-> AdvancePM(newPM),
         sr_kick |-> ShortKicks(AllActive, newP),
         lr_kick |-> IF is_PM_timestep(Ti_Current)
                     THEN Append(lr_kick, <<LongKickStart, LongKickEnd(newPM, FALSE)>>)
                     ELSE lr_kick]

\* Entry of advance_and_find_timesteps(do_half_kick): new_PM_Ti_step is set;
\* dti_raw is what the timestep criteria give for the active particles.
AdvEnter(do_half_kick, pmraw, raw) ==
    /\ pc = "advance"
    /\ adv' = [do_half_kick     |-> do_half_kick,
               new_PM_Ti_step   |-> NewPMStep(pmraw),
               dti_raw          |-> [i \in Particles |->
                                        IF i \in AllActive THEN raw[i] ELSE NoReq],
               badstepsizecount |-> [r \in Ranks |-> 0]]
    /\ full_kick' = IF do_half_kick THEN FullKick(raw, NewPMStep(pmraw)) ELSE NoCall
    /\ pc' = "adv_loop"
    /\ UNCHANGED <<Ti_Current, P, PM_Ti, TimeBinCount, TimeBinCountType, TimeBinActive,
                   ActiveParticle, kick_arg, bin_req, bin_old, sr_kick, lr_kick>>

\* The particle loop, with its short-range kicks.
AdvParticleLoop ==
    /\ pc = "adv_loop"
    /\ \E newP \in {AdvanceLoop(AllActive, adv.dti_raw, adv.new_PM_Ti_step, adv.do_half_kick)} :
       \E req \in {Requests(AllActive, adv.dti_raw, adv.new_PM_Ti_step)} :
          /\ P' = newP
          /\ bin_req' = req
          /\ bin_old' = [i \in Particles |-> IF i \in AllActive THEN P[i].TimeBin ELSE NoReq]
          /\ TimeBinCount' = MigrateCounts(TimeBinCount, AllActive, newP)
          /\ TimeBinCountType' = MigrateCountsType(TimeBinCountType, AllActive, newP)
          /\ sr_kick' = ShortKicks(AllActive, newP)
          /\ adv' = [adv EXCEPT !.badstepsizecount =
                        [r \in Ranks |-> Cardinality({i \in ActiveSet(r) : req[i] < 1})]]
    /\ pc' = IF \E i \in AllActive : P[i].Ti_kick # KickStart(P[i])
             THEN "endrun_kick" ELSE "adv_reduce"
    /\ UNCHANGED <<Ti_Current, PM_Ti, TimeBinActive, ActiveParticle, kick_arg, lr_kick,
                   full_kick>>

\* MPI_Allreduce(&badstepsizecount, ..., MPI_SUM, ...); savepositions(999999, 0)
\* and endrun when the sum is not zero.
AdvBadStepCheck ==
    /\ pc = "adv_reduce"
    /\ pc' = IF SumOver(adv.badstepsizecount, Ranks) # 0 THEN "endrun_badstep" ELSE "adv_pm"
    /\ UNCHANGED <<Ti_Current, P, PM_Ti, TimeBinCount, TimeBinCountType, TimeBinActive,
                   ActiveParticle, kick_arg, bin_req, bin_old, sr_kick, lr_kick, adv,
                   full_kick>>

\* if(is_PM_timestep(All.Ti_Current)) { ... do_the_long_range_kick(tistart, tiend);
AdvLongRangeKick ==
    /\ pc = "adv_pm"
    /\ IF is_PM_timestep(Ti_Current)
       THEN /\ lr_kick' = Append(lr_kick,
                                 <<LongKickStart,
                                   LongKickEnd(adv.new_PM_Ti_step, adv.do_half_kick)>>)
            /\ pc' = "adv_pmset"
       ELSE /\ lr_kick' = lr_kick
            /\ pc' = "adv_return"
    /\ UNCHANGED <<Ti_Current, P, PM_Ti, TimeBinCount, TimeBinCountType, TimeBinActive,
                   ActiveParticle, kick_arg, bin_req, bin_old, sr_kick, adv, full_kick>>

\* PM_Ti.start += PM_Ti.step; PM_Ti.step = new_PM_Ti_step; }
AdvPMUpdate ==
    /\ pc = "adv_pmset"
    /\ PM_Ti' = AdvancePM(adv.new_PM_Ti_step)
    /\ pc' = "adv_return"
    /\ UNCHANGED <<Ti_Current, P, TimeBinCount, TimeBinCountType, TimeBinActive,
                   ActiveParticle, kick_arg, bin_req, bin_old, sr_kick, lr_kick, adv,
                   full_kick>>

\* The call returns; a snapshot and apply_half_kick follow a half kick.
AdvReturn ==
    /\ pc = "adv_return"
    /\ pc' = IF adv.do_half_kick THEN "halfkick" ELSE "find"
    /\ adv' = NoCall
    /\ UNCHANGED <<Ti_Current, P, PM_Ti, TimeBinCount, TimeBinCountType, TimeBinActive,
                   ActiveParticle, kick_arg, bin_req, bin_old, sr_kick, lr_kick,
                   full_kick>>

\* find_next_kick; the kicks of the sync point left behind are forgotten.
StepFind ==
    /\ FindNextKick
    /\ sr_kick' = [i \in Particles |-> << >>]
    /\ lr_kick' = << >>
    /\ full_kick' = NoCall
    /\ UNCHANGED adv

\* apply_half_kick with its kicks
StepHalfKick ==
    /\ ApplyHalfKick
    /\ sr_kick' = HalfShortKicks
    /\ lr_kick' = HalfLongKicks
    /\ UNCHANGED <<adv, full_kick>>

NextSteps ==
    \/ Ti_Current < MaxStepTick /\ StepFind /\ UNCHANGED <<threads, ranks, NumForceUpdate, call>>
    \/ UpdateActiveTimebins /\ UNCHANGED <<detail, threads, ranks, NumForceUpdate, call>>
    \/ RebuildActivelist /\ UNCHANGED <<detail, threads, ranks, NumForceUpdate, call>>
    \/ /\ pc = "advance"
       /\ \E h \in BOOLEAN, pmraw \in PMInputs :
          \E raw \in [AllActive -> RawInputs(NewPMStep(pmraw))] :
             AdvEnter(h, pmraw, raw)
       /\ UNCHANGED <<threads, ranks, NumForceUpdate, call>>
    \/ AdvParticleLoop /\ UNCHANGED <<threads, ranks, NumForceUpdate, call>>
    \/ AdvBadStepCheck /\ UNCHANGED <<threads, ranks, NumForceUpdate, call>>
    \/ AdvLongRangeKick /\ UNCHANGED <<threads, ranks, NumForceUpdate, call>>
    \/ AdvPMUpdate /\ UNCHANGED <<threads, ranks, NumForceUpdate, call>>
    \/ AdvReturn /\ UNCHANGED <<threads, ranks, NumForceUpdate, call>>
    \/ StepHalfKick /\ UNCHANGED <<threads, ranks, NumForceUpdate, call>>

SpecSteps == Init /\ [][NextSteps]_vars

(* ------------------- find_next_kick as a function --------------------- *)
(* ------------------- the parallel loops, thread by thread ------------- *)
\* One call of advance_and_find_timesteps away from a PM boundary, with the
\* two omp parallel for loops taken one shared-memory access at a time. The
\* schedule is left open: a free worker starts any iteration not yet started.

\* Local particles of rank 1.
NumLocal == 3
\* Rank 1 holds NumLocal particles, every other rank one.
OmpLocal(r) == IF r = 1 THEN [k \in 1 .. NumLocal |-> k] ELSE <<NumLocal + r - 1>>
OmpParticles == 1 .. (NumLocal + NRanks - 1)
\* Values of the timestep selector for the particles of this call.
OmpDti == {1, 2, 4}

\* The start of the step of a particle in bin b that ends, or is under way, at tick ti.
StepStart(ti, b) == IF ti % Pow2(b) = 0 THEN ti - Pow2(b) ELSE ti - (ti % Pow2(b))

\* The state at the call: tick 4, the particles of rank 1 in bins 1 and 2
\* (active), the particle of every other rank in bin 2 (active) or 3 (not).
InitOmp ==
    /\ Ti_Current = 4
    /\ PM_Ti = [start |-> 0, step |-> 8]
    /\ TimeBinActive = ActiveMask(4)
    /\ \E bins \in [OmpParticles -> 1 .. 3] :
          /\ \A i \in 1 .. NumLocal : bins[i] = 1 + (i % 2)
          /\ \A i \in OmpParticles \ (1 .. NumLocal) : bins[i] \in {2, 3}
          /\ P = [i \in OmpParticles |->
                    [TimeBin    |-> bins[i],
                     Ti_begstep |-> StepStart(4, bins[i]),
                     Ti_kick    |-> get_kick_ti(StepStart(4, bins[i]), BinStep(bins[i]))]]
    /\ ActiveParticle =
          [r \in Ranks |-> SelectSeq(OmpLocal(r), LAMBDA i : TimeBinActive[P[i].TimeBin] # 0)]
    /\ TimeBinCount =
          [r \in Ranks |-> [b \in Bins |->
              Cardinality({k \in 1 .. Len(OmpLocal(r)) : P[OmpLocal(r)[k]].TimeBin = b})]]
    /\ TimeBinCountType =
          [r \in Ranks |-> [ty \in Types |-> [b \in Bins |->
              Cardinality({k \in 1 .. Len(OmpLocal(r)) :
                              /\ P[OmpLocal(r)[k]].TimeBin = b
                              /\ TypeOf(OmpLocal(r)[k]) = ty})]]]
    /\ pc = "omp_enter"
    /\ kick_arg = NoReq
    /\ bin_req = [i \in OmpParticles |-> NoReq]
    /\ bin_old = [i \in OmpParticles |-> NoReq]
    /\ sr_kick = [i \in OmpParticles |-> << >>]
    /\ lr_kick = << >>
    /\ \E raw \in [OmpParticles -> OmpDti] :
          adv = [do_half_kick |-> FALSE, new_PM_Ti_step |-> PM_Ti.step,
                 dti_raw |-> raw, badstepsizecount |-> [r \in Ranks |-> 0]]
    /\ full_kick = NoCall
    /\ ForceEqualTimesteps \in BOOLEAN
    /\ ti_min = [r \in Ranks |-> NoReq]
    /\ ti_min_glob = TIMEBASE
    /\ omp_todo = [r \in Ranks |-> {}]
    /\ omp_thread = [r \in Ranks |-> [t \in Threads |-> Idle]]
    /\ rank_pc = [r \in Ranks |-> "lockstep"]
    /\ allreduce = NoContribution
    /\ rank_got = [r \in Ranks |-> NothingGot]
    /\ NumForceUpdate = [r \in Ranks |-> NoReq]
    /\ call = NoCall

\* get_timestep_ti(i, new_PM_Ti_step)
SelectorDti(i) == get_timestep_ti(adv.dti_raw[i], adv.new_PM_Ti_step)

\* int ti_min = get_timestep_ti(ActiveParticle[0], new_PM_Ti_step): with an
\* empty active list ActiveParticle[0] is whatever the array holds, so the
\* value is any the selector can give.
TiMinSeeds(r) ==
    IF ActiveParticle[r] # << >> THEN {SelectorDti(ActiveParticle[r][1])} ELSE OmpDti

AllIdle == \A r \in Ranks : omp_todo[r] = {} /\ \A t \in Threads : omp_thread[r][t] = Idle
AllIterations == [r \in Ranks |-> 1 .. Len(ActiveParticle[r])]

\* Entry of the call up to the first parallel loop that runs.
OmpEnter ==
    /\ pc = "omp_enter"
    /\ IF ForceEqualTimesteps
       THEN /\ \E seed \in [Ranks -> OmpDti] :
                  /\ \A r \in Ranks : seed[r] \in TiMinSeeds(r)
                  /\ ti_min' = seed
            /\ pc' = "omp_eq"
       ELSE /\ ti_min' = ti_min
            /\ pc' = "omp_loop"
    /\ omp_todo' = AllIterations
    /\ UNCHANGED <<Ti_Current, P, PM_Ti, TimeBinCount, TimeBinCountType, TimeBinActive,
                   ActiveParticle, kick_arg, bin_req, bin_old, detail,
                   ForceEqualTimesteps, ti_min_glob, omp_thread>>

\* Equalization loop: int dti = get_timestep_ti(i, ...); if(dti < ti_min)
EqRead(r, t) ==
    /\ pc = "omp_eq"
    /\ omp_thread[r][t] = Idle
    /\ \E pa \in omp_todo[r] :
          LET i == ActiveParticle[r][pa]
          IN  /\ omp_todo' = [omp_todo EXCEPT ![r] = @ \ {pa}]
              /\ omp_thread' = [omp_thread EXCEPT ![r][t] =
                    IF SelectorDti(i) < ti_min[r]
                    THEN [at |-> "eq_write", i |-> i, dti |-> SelectorDti(i)]
                    ELSE Idle]
    /\ UNCHANGED <<timeline, detail, ForceEqualTimesteps, ti_min, ti_min_glob>>

\* Equalization loop: ti_min = dti;
EqWrite(r, t) ==
    /\ pc = "omp_eq"
    /\ omp_thread[r][t].at = "eq_write"
    /\ ti_min' = [ti_min EXCEPT ![r] = omp_thread[r][t].dti]
    /\ omp_thread' = [omp_thread EXCEPT ![r][t] = Idle]
    /\ UNCHANGED <<timeline, detail, ForceEqualTimesteps, ti_min_glob, omp_todo>>

\* MPI_Allreduce(&ti_min, &ti_min_glob, 1, MPI_INT, MPI_MIN, MPI_COMM_WORLD)
EqAllreduce ==
    /\ pc = "omp_eq"
    /\ AllIdle
    /\ ti_min_glob' = Min({ti_min[r] : r \in Ranks})
    /\ omp_todo' = AllIterations
    /\ pc' = "omp_loop"
    /\ UNCHANGED <<Ti_Current, P, PM_Ti, TimeBinCount, TimeBinCountType, TimeBinActive,
                   ActiveParticle, kick_arg, bin_req, bin_old, detail,
                   ForceEqualTimesteps, ti_min, omp_thread>>

\* P[i].TimeBin = bin; ... P[i].Ti_begstep += dti_old;
\* do_the_short_range_kick(i, tistart, tiend): particle i only, so these are
\* taken together with the last access to shared memory of the iteration.
OmpKick(i, bin, dti) ==
    [P EXCEPT ![i] = [TimeBin    |-> bin,
                      Ti_begstep |-> @.Ti_begstep + BinStep(@.TimeBin),
                      Ti_kick    |-> KickEnd(@, dti, adv.do_half_kick)]]

\* The worker after the last access to shared memory of its iteration.
OmpDone(th, binold) ==
    IF th.bin # binold THEN [th EXCEPT !.at = "dec_count"] ELSE Idle

\* Particle loop, from the head of an iteration to the read of
\* badstepsizecount in badstepsizecount++ (bad step) or to the end of the
\* upward guard: private values and reads of TimeBinActive only.
LoopRead(r, t) ==
    /\ pc = "omp_loop"
    /\ omp_thread[r][t] = Idle
    /\ \E pa \in omp_todo[r] :
          LET i      == ActiveParticle[r][pa]
              dti    == round_down_power_of_two(
                            IF ForceEqualTimesteps THEN ti_min_glob ELSE SelectorDti(i))
              bin    == get_timestep_bin(dti)
              binold == P[i].TimeBin
              final  == FinalBin(bin, binold)
              th     == [at  |-> "bad_store",
                         i   |-> i,
                         dti |-> IF bin > binold THEN BinStep(final) ELSE dti,
                         bin |-> final,
                         reg |-> adv.badstepsizecount[r]]
          IN  /\ omp_todo' = [omp_todo EXCEPT ![r] = @ \ {pa}]
              /\ omp_thread' = [omp_thread EXCEPT ![r][t] =
                                    IF bin < 1 THEN th ELSE OmpDone(th, binold)]
              /\ P' = IF bin >= 1 /\ final = binold THEN OmpKick(i, final, th.dti) ELSE P
    /\ UNCHANGED <<Ti_Current, PM_Ti, TimeBinCount, TimeBinCountType, TimeBinActive,
                   ActiveParticle, pc, kick_arg, bin_req, bin_old, detail,
                   ForceEqualTimesteps, ti_min, ti_min_glob>>

\* The write of badstepsizecount++
BadStore(r, t) ==
    /\ pc = "omp_loop"
    /\ omp_thread[r][t].at = "bad_store"
    /\ adv' = [adv EXCEPT !.badstepsizecount[r] = omp_thread[r][t].reg + 1]
    /\ LET th == omp_thread[r][t]
       IN  /\ omp_thread' = [omp_thread EXCEPT ![r][t] = OmpDone(th, P[th.i].TimeBin)]
           /\ P' = IF th.bin = P[th.i].TimeBin THEN OmpKick(th.i, th.bin, th.dti) ELSE P
    /\ UNCHANGED <<Ti_Current, PM_Ti, TimeBinCount, TimeBinCountType, TimeBinActive,
                   ActiveParticle, pc, kick_arg, bin_req, bin_old, sr_kick, lr_kick,
                   full_kick, ForceEqualTimesteps, ti_min, ti_min_glob, omp_todo>>

\* atomic_fetch_and_add(&TimeBinCount[b], d) on one rank (an index outside
\* the array changes no counter).
AtomicAdd(count, b, d) == [c \in Bins |-> count[c] + (IF c = b THEN d ELSE 0)]

\* atomic_fetch_and_add(&TimeBinCount[binold],-1)
DecCount(r, t) ==
    /\ pc = "omp_loop"
    /\ omp_thread[r][t].at = "dec_count"
    /\ TimeBinCount' = [TimeBinCount EXCEPT ![r] =
                           AtomicAdd(@, P[omp_thread[r][t].i].TimeBin, 0 - 1)]
    /\ omp_thread' = [omp_thread EXCEPT ![r][t].at = "inc_count"]
    /\ UNCHANGED <<Ti_Current, P, PM_Ti, TimeBinCountType, TimeBinActive, ActiveParticle,
                   pc, kick_arg, bin_req, bin_old, detail, ForceEqualTimesteps, ti_min,
                   ti_min_glob, omp_todo>>

\* atomic_fetch_and_add(&TimeBinCount[bin],1)
IncCount(r, t) ==
    /\ pc = "omp_loop"
    /\ omp_thread[r][t].at = "inc_count"
    /\ TimeBinCount' = [TimeBinCount EXCEPT ![r] = AtomicAdd(@, omp_thread[r][t].bin, 1)]
    /\ omp_thread' = [omp_thread EXCEPT ![r][t].at = "dec_type"]
    /\ UNCHANGED <<Ti_Current, P, PM_Ti, TimeBinCountType, TimeBinActive, ActiveParticle,
                   pc, kick_arg, bin_req, bin_old, detail, ForceEqualTimesteps, ti_min,
                   ti_min_glob, omp_todo>>

\* atomic_fetch_and_add(&TimeBinCountType[P[i].Type][binold],-1)
DecType(r, t) ==
    /\ pc = "omp_loop"
    /\ omp_thread[r][t].at = "dec_type"
    /\ TimeBinCountType' = [TimeBinCountType EXCEPT ![r][TypeOf(omp_thread[r][t].i)] =
                               AtomicAdd(@, P[omp_thread[r][t].i].TimeBin, 0 - 1)]
    /\ omp_thread' = [omp_thread EXCEPT ![r][t].at = "inc_type"]
    /\ UNCHANGED <<Ti_Current, P, PM_Ti, TimeBinCount, TimeBinActive, ActiveParticle,
                   pc, kick_arg, bin_req, bin_old, detail, ForceEqualTimesteps, ti_min,
                   ti_min_glob, omp_todo>>

\* atomic_fetch_and_add(&TimeBinCountType[P[i].Type][bin],1)
IncType(r, t) ==
    /\ pc = "omp_loop"
    /\ omp_thread[r][t].at = "inc_type"
    /\ TimeBinCountType' = [TimeBinCountType EXCEPT ![r][TypeOf(omp_thread[r][t].i)] =
                               AtomicAdd(@, omp_thread[r][t].bin, 1)]
    /\ P' = OmpKick(omp_thread[r][t].i, omp_thread[r][t].bin, omp_thread[r][t].dti)
    /\ omp_thread' = [omp_thread EXCEPT ![r][t] = Idle]
    /\ UNCHANGED <<Ti_Current, PM_Ti, TimeBinCount, TimeBinActive, ActiveParticle,
                   pc, kick_arg, bin_req, bin_old, detail, ForceEqualTimesteps, ti_min,
                   ti_min_glob, omp_todo>>

\* MPI_Allreduce(&badstepsizecount, &badstepsizecount_global, ..., MPI_SUM, ...)
\* and the test that follows it.
LoopAllreduce ==
    /\ pc = "omp_loop"
    /\ AllIdle
    /\ pc' = IF SumOver(adv.badstepsizecount, Ranks) # 0 THEN "omp_endrun" ELSE "omp_done"
    /\ UNCHANGED <<Ti_Current, P, PM_Ti, TimeBinCount, TimeBinCountType, TimeBinActive,
                   ActiveParticle, kick_arg, bin_req, bin_old, detail, threads>>

NextOmp ==
    \/ OmpEnter /\ UNCHANGED <<ranks, NumForceUpdate, call>>
    \/ \E r \in Ranks, t \in Threads : EqRead(r, t) /\ UNCHANGED <<ranks, NumForceUpdate, call>>
    \/ \E r \in Ranks, t \in Threads : EqWrite(r, t) /\ UNCHANGED <<ranks, NumForceUpdate, call>>
    \/ EqAllreduce /\ UNCHANGED <<ranks, NumForceUpdate, call>>
    \/ \E r \in Ranks, t \in Threads : LoopRead(r, t) /\ UNCHANGED <<ranks, NumForceUpdate, call>>
    \/ \E r \in Ranks, t \in Threads : BadStore(r, t) /\ UNCHANGED <<ranks, NumForceUpdate, call>>
    \/ \E r \in Ranks, t \in Threads : DecCount(r, t) /\ UNCHANGED <<ranks, NumForceUpdate, call>>
    \/ \E r \in Ranks, t \in Threads : IncCount(r, t) /\ UNCHANGED <<ranks, NumForceUpdate, call>>
    \/ \E r \in Ranks, t \in Threads : DecType(r, t) /\ UNCHANGED <<ranks, NumForceUpdate, call>>
    \/ \E r \in Ranks, t \in Threads : IncType(r, t) /\ UNCHANGED <<ranks, NumForceUpdate, call>>
    \/ LoopAllreduce /\ UNCHANGED <<ranks, NumForceUpdate, call>>

SpecOmp == InitOmp /\ [][NextOmp]_vars

(* --------------------------- rank by rank ----------------------------- *)
\* One pass of the driver loop with every rank running on its own: a rank
\* hands its local value to an all-reduce and leaves it with the result once
\* every rank has handed in (MPI_Allreduce on MPI_COMM_WORLD). Rank r holds
\* one particle, particle r, in the bin its registry shows.

\* The populated bin of a rank that holds one particle.
BinOfRank(r) == CHOOSE b \in Bins : TimeBinCount[r][b] # 0

InitRanks ==
    /\ Ti_Current \in {0, 4, TIMEBASE + 4}
    /\ \E bins \in [Ranks -> 0 .. 3] :
          /\ Ti_Current = 0 \/ \A r \in Ranks : bins[r] # 0
          /\ TimeBinCount = [r \in Ranks |-> [b \in Bins |-> IF b = bins[r] THEN 1 ELSE 0]]
          /\ TimeBinCountType =
                [r \in Ranks |-> [ty \in Types |-> [b \in Bins |->
                    IF b = bins[r] /\ ty = TypeOf(r) THEN 1 ELSE 0]]]
          /\ P = [r \in Ranks |->
                    [TimeBin    |-> bins[r],
                     Ti_begstep |-> LowBits(Ti_Current) - (LowBits(Ti_Current) % Pow2(bins[r])),
                     Ti_kick    |-> get_kick_ti(
                                        LowBits(Ti_Current) - (LowBits(Ti_Current) % Pow2(bins[r])),
                                        BinStep(bins[r]))]]
    /\ PM_Ti = [start |-> 0, step |-> TIMEBASE]
    /\ TimeBinActive = ActiveMask(Ti_Current)
    /\ ActiveParticle = [r \in Ranks |-> << >>]
    /\ pc = "ranks"
    /\ kick_arg = Ti_Current
    /\ bin_req = [r \in Ranks |-> NoReq]
    /\ bin_old = [r \in Ranks |-> NoReq]
    /\ sr_kick = [r \in Ranks |-> << >>]
    /\ lr_kick = << >>
    /\ \E raw \in [Ranks -> OmpDti] :
          adv = [do_half_kick |-> FALSE, new_PM_Ti_step |-> PM_Ti.step,
                 dti_raw |-> raw, badstepsizecount |-> [r \in Ranks |-> 0]]
    /\ full_kick = NoCall
    /\ ForceEqualTimesteps \in BOOLEAN
    /\ ti_min = [r \in Ranks |-> NoReq]
    /\ ti_min_glob = TIMEBASE
    /\ omp_todo = [r \in Ranks |-> {}]
    /\ omp_thread = [r \in Ranks |-> [t \in Threads |-> Idle]]
    /\ rank_pc = [r \in Ranks |-> "find"]
    /\ allreduce = NoContribution
    /\ rank_got = [r \in Ranks |-> NothingGot]
    /\ NumForceUpdate = [r \in Ranks |-> NoReq]
    /\ call = NoCall

\* Every rank has handed its value to the all-reduce k.
AllContributed(k) == \A q \in Ranks : allreduce[k][q] # NoReq

\* A variant of MPI_MIN that gives a rank its own value back.
ReduceMin_Own(k, r) == allreduce[k][r]

\* MPI_Allreduce(..., MPI_MIN, MPI_COMM_WORLD): the result on rank r
ReduceMin(k, r) == Min({allreduce[k][q] : q \in Ranks})

\* MPI_Allreduce(..., MPI_SUM, MPI_COMM_WORLD): the result on rank r
ReduceSum(k, r) == SumOver(allreduce[k], Ranks)

\* The particle of rank r is active at the tick the rank got from find_next_kick.
RankActive(r) == LowBits(rank_got[r]["kick"]) % Pow2(BinOfRank(r)) = 0

\* The step the particle loop of rank r uses for its particle.
RankDti(r) ==
    round_down_power_of_two(
        IF ForceEqualTimesteps THEN rank_got[r]["equal"]
        ELSE get_timestep_ti(adv.dti_raw[r], adv.new_PM_Ti_step))

\* badstepsizecount of rank r after its particle loop
RankBadCount(r) == IF RankActive(r) /\ get_timestep_bin(RankDti(r)) < 1 THEN 1 ELSE 0

\* A rank hands `value` to the all-reduce k.
Contribute(r, k, value, next) ==
    /\ allreduce' = [allreduce EXCEPT ![k][r] = value]
    /\ rank_pc' = [rank_pc EXCEPT ![r] = next]
    /\ UNCHANGED <<timeline, detail, threads, rank_got, NumForceUpdate, call>>

\* A rank leaves the all-reduce k with `result`.
Leave(r, k, result, next) ==
    /\ AllContributed(k)
    /\ rank_got' = [rank_got EXCEPT ![r][k] = result]
    /\ rank_pc' = [rank_pc EXCEPT ![r] = next]
    /\ UNCHANGED <<timeline, detail, threads, allreduce, NumForceUpdate, call>>

\* find_next_kick up to its MPI_Allreduce
RankFindNextKick(r) ==
    /\ rank_pc[r] = "find"
    /\ Contribute(r, "kick", LocalNextKick(TimeBinCount[r], Ti_Current), "find_wait")

\* return ti_next_kick_global
RankFindReturn(r) ==
    /\ rank_pc[r] = "find_wait"
    /\ Leave(r, "kick", ReduceMin("kick", r), IF ForceEqualTimesteps THEN "equal" ELSE "loop")

\* The equalization loop of a rank up to its MPI_Allreduce
RankEqualize(r) ==
    /\ rank_pc[r] = "equal"
    /\ Contribute(r, "equal", get_timestep_ti(adv.dti_raw[r], adv.new_PM_Ti_step), "equal_wait")

\* ti_min_glob of a rank
RankEqualized(r) ==
    /\ rank_pc[r] = "equal_wait"
    /\ Leave(r, "equal", ReduceMin("equal", r), "loop")

\* The particle loop of a rank up to the MPI_Allreduce of badstepsizecount
RankParticleLoop(r) ==
    /\ rank_pc[r] = "loop"
    /\ Contribute(r, "bad", RankBadCount(r), "bad_wait")

\* if(badstepsizecount_global) { ... endrun(0, "Ending due to bad timestep"); }
RankBadStepCheck(r) ==
    /\ rank_pc[r] = "bad_wait"
    /\ Leave(r, "bad", ReduceSum("bad", r),
             IF ReduceSum("bad", r) # 0 THEN "endrun_badstep" ELSE "pm")

NextRanks ==
    \/ \E r \in Ranks : RankFindNextKick(r)
    \/ \E r \in Ranks : RankFindReturn(r)
    \/ \E r \in Ranks : RankEqualize(r)
    \/ \E r \in Ranks : RankEqualized(r)
    \/ \E r \in Ranks : RankParticleLoop(r)
    \/ \E r \in Ranks : RankBadStepCheck(r)

SpecRanks == InitRanks /\ [][NextRanks]_vars

(* ----------------------- the registry calls alone --------------------- *)
\* A variant that leaves bin 0 out of the sum.
ForceUpdates_NoBinZero(count, next_kick) ==
    SumOver(count, {n \in 1 .. (TIMEBINS - 1) : next_kick % Pow2(n) = 0})

\* for(n = 1, ...; n < TIMEBINS; n++) if((next_kick % dti_bin) == 0) NumForceUpdate += TimeBinCount[n]
RECURSIVE ForceUpdateLoop(_, _, _, _)
ForceUpdateLoop(count, next_kick, n, acc) ==
    IF n >= TIMEBINS THEN acc
    ELSE IF next_kick % Pow2(n) = 0
         THEN ForceUpdateLoop(count, next_kick, n + 1, acc + count[n])
         ELSE ForceUpdateLoop(count, next_kick, n + 1, acc)

\* int NumForceUpdate = TimeBinCount[0]; ...; return NumForceUpdate;
ForceUpdates(count, next_kick) == ForceUpdateLoop(count, next_kick, 1, count[0])

\* A direct call update_active_timebins(Ti_Current) for any argument, snapshot
\* bits included, bin counts of 0 or 2 in any bins on the first rank, of 0 or 1
\* in all bins on the others, and a mask left by earlier calls.
InitUpdate ==
    /\ Ti_Current \in 0 .. ((MaxSnap + 1) * TIMEBASE - 1)
    /\ \E first \in [Bins -> {0, 2}], c \in 0 .. 1 :
          TimeBinCount = [r \in Ranks |-> IF r = 1 THEN first ELSE [b \in Bins |-> c]]
    /\ \E a \in 0 .. 1 : TimeBinActive = [b \in Bins |-> a]
    /\ P = [i \in Particles |-> [TimeBin |-> 0, Ti_begstep |-> 0, Ti_kick |-> 0]]
    /\ PM_Ti = [start |-> 0, step |-> 0]
    /\ TimeBinCountType = [r \in Ranks |-> [ty \in Types |-> [b \in Bins |-> 0]]]
    /\ ActiveParticle = [r \in Ranks |-> << >>]
    /\ pc = "update"
    /\ kick_arg = NoReq
    /\ bin_req = [i \in Particles |-> NoReq]
    /\ bin_old = [i \in Particles |-> NoReq]
    /\ sr_kick = [i \in Particles |-> << >>]
    /\ lr_kick = << >>
    /\ adv = NoCall
    /\ full_kick = NoCall
    /\ ForceEqualTimesteps = FALSE
    /\ ti_min = [r \in Ranks |-> NoReq]
    /\ ti_min_glob = TIMEBASE
    /\ omp_todo = [r \in Ranks |-> {}]
    /\ omp_thread = [r \in Ranks |-> [t \in Threads |-> Idle]]
    /\ rank_pc = [r \in Ranks |-> "lockstep"]
    /\ allreduce = NoContribution
    /\ rank_got = [r \in Ranks |-> NothingGot]
    /\ NumForceUpdate = [r \in Ranks |-> NoReq]
    /\ call = NoCall

\* NumForceUpdate = update_active_timebins(All.Ti_Current) on every rank
UpdateCall ==
    /\ UpdateActiveTimebins
    /\ NumForceUpdate' = [r \in Ranks |-> ForceUpdates(TimeBinCount[r], Ti_Current)]
    /\ UNCHANGED <<detail, threads, ranks, call>>

SpecUpdate == InitUpdate /\ [][UpdateCall]_vars

\* A direct call rebuild_activelist() for any particle bins and any mask,
\* with counts and a list left by earlier calls: nothing counted and listed,
\* or every local particle listed and counted in bin 0.
InitRebuild ==
    /\ Ti_Current = 0
    /\ \E bins \in [Particles -> Bins] :
          P = [i \in Particles |-> [TimeBin |-> bins[i], Ti_begstep |-> 0, Ti_kick |-> 0]]
    /\ TimeBinActive \in [Bins -> 0 .. 1]
    /\ \E stale \in BOOLEAN :
          /\ ActiveParticle = [r \in Ranks |-> IF stale THEN LocalParticles(r) ELSE << >>]
          /\ TimeBinCount =
                [r \in Ranks |-> [b \in Bins |->
                    IF stale /\ b = 0 THEN Len(LocalParticles(r)) ELSE 0]]
          /\ TimeBinCountType = [r \in Ranks |-> [ty \in Types |-> [b \in Bins |-> 0]]]
    /\ PM_Ti = [start |-> 0, step |-> 0]
    /\ pc = "rebuild"
    /\ kick_arg = NoReq
    /\ bin_req = [i \in Particles |-> NoReq]
    /\ bin_old = [i \in Particles |-> NoReq]
    /\ sr_kick = [i \in Particles |-> << >>]
    /\ lr_kick = << >>
    /\ adv = NoCall
    /\ full_kick = NoCall
    /\ ForceEqualTimesteps = FALSE
    /\ ti_min = [r \in Ranks |-> NoReq]
    /\ ti_min_glob = TIMEBASE
    /\ omp_todo = [r \in Ranks |-> {}]
    /\ omp_thread = [r \in Ranks |-> [t \in Threads |-> Idle]]
    /\ rank_pc = [r \in Ranks |-> "lockstep"]
    /\ allreduce = NoContribution
    /\ rank_got = [r \in Ranks |-> NothingGot]
    /\ NumForceUpdate = [r \in Ranks |-> NoReq]
    /\ call = NoCall

\* The caller is about to call rebuild_activelist() once more.
RebuildAgain ==
    /\ pc = "advance"
    /\ pc' = "rebuild"
    /\ UNCHANGED <<Ti_Current, P, PM_Ti, TimeBinCount, TimeBinCountType, TimeBinActive,
                   ActiveParticle, kick_arg, bin_req, bin_old>>

NextRebuild ==
    \/ RebuildActivelist /\ UNCHANGED <<detail, threads, ranks, NumForceUpdate, call>>
    \/ RebuildAgain /\ UNCHANGED <<detail, threads, ranks, NumForceUpdate, call>>

SpecRebuild == InitRebuild /\ [][NextRebuild]_vars

(* ------------------- functions called on their own -------------------- *)
\* The quiet timeline of a run in which only a function is called.
NoTimeline ==
    /\ Ti_Current = 0
    /\ P = [i \in Particles |-> [TimeBin |-> 0, Ti_begstep |-> 0, Ti_kick |-> 0]]
    /\ PM_Ti = [start |-> 0, step |-> 0]
    /\ TimeBinCount = [r \in Ranks |-> [b \in Bins |-> 0]]
    /\ TimeBinCountType = [r \in Ranks |-> [ty \in Types |-> [b \in Bins |-> 0]]]
    /\ TimeBinActive = ActiveMask(0)
    /\ ActiveParticle = [r \in Ranks |-> << >>]
    /\ pc = "call"
    /\ kick_arg = NoReq
    /\ bin_req = [i \in Particles |-> NoReq]
    /\ bin_old = [i \in Particles |-> NoReq]
    /\ sr_kick = [i \in Particles |-> << >>]
    /\ lr_kick = << >>
    /\ adv = NoCall
    /\ full_kick = NoCall
    /\ ForceEqualTimesteps = FALSE
    /\ ti_min = [r \in Ranks |-> NoReq]
    /\ ti_min_glob = TIMEBASE
    /\ omp_todo = [r \in Ranks |-> {}]
    /\ omp_thread = [r \in Ranks |-> [t \in Threads |-> Idle]]
    /\ rank_pc = [r \in Ranks |-> "lockstep"]
    /\ allreduce = NoContribution
    /\ rank_got = [r \in Ranks |-> NothingGot]
    /\ NumForceUpdate = [r \in Ranks |-> NoReq]

\* Entropy and its rate are held exactly as integers: one dloga unit is the
\* dloga of one tick, and entropies are multiples of EntropyUnit and rates
\* multiples of TIMEBASE, so that every halving and every division by a
\* half step of a bin below is exact (as it is in binary floating point).
MaxEntropy == 2
MaxRate == 4
EntropyUnit == 2 * TIMEBASE
EntropyInputs == {k * EntropyUnit : k \in 0 .. MaxEntropy}
DtEntropyInputs == {k * TIMEBASE : k \in (0 - MaxRate) .. MaxRate}
KickLengths == 0 .. MaxStepTick

\* dloga_from_dti(dti), in dloga units.
dloga_from_dti(dti) == dti

\* get_dloga_for_bin(bin) = dloga_from_dti(2^bin); the comparisons below are
\* those of the code with both sides doubled (dt_entr_next is half of it).
get_dloga_for_bin(bin) == dloga_from_dti(2 ^ bin)

\* Entropy after the guarded update over dt_entr.
EntropyUpdate(Entropy, DtEntropy, dt_entr) ==
    IF 2 * DtEntropy * dt_entr < 0 - Entropy
    THEN Entropy \div 2
    ELSE Entropy + DtEntropy * dt_entr

\* The entropy floor: minentropy = 0 stands for All.MinEgySpec not configured.
EntropyFloor(g, minentropy) ==
    IF minentropy # 0 /\ g.Entropy < minentropy
    THEN [Entropy |-> minentropy, DtEntropy |-> 0]
    ELSE g

\* A variant that bounds no rate for the next step.
NextStepBound_None(g, bin) == g

\* The bound on the rate of the next step, dt_entr_next = get_dloga_for_bin(bin) / 2.
NextStepBound(g, bin) ==
    IF g.DtEntropy * get_dloga_for_bin(bin) < 0 - g.Entropy
    THEN [g EXCEPT !.DtEntropy = 0 - (g.Entropy \div get_dloga_for_bin(bin))]
    ELSE g

\* The gas part of do_the_short_range_kick(i, tistart, tiend).
GasKick(Entropy, DtEntropy, dti, bin, minentropy) ==
    NextStepBound(
        EntropyFloor([Entropy |-> EntropyUpdate(Entropy, DtEntropy, dloga_from_dti(dti)),
                      DtEntropy |-> DtEntropy], minentropy),
        bin)

\* Calls of do_the_short_range_kick on a gas particle: its entropy and rate,
\* the length tiend - tistart, its bin and the entropy floor.
KickCalls ==
    {[fn |-> "do_the_short_range_kick", Entropy |-> a, DtEntropy |-> d, dti |-> t,
      TimeBin |-> b, minentropy |-> m, Entropy0 |-> a, ret |-> NoReq] :
        a \in EntropyInputs, d \in DtEntropyInputs, t \in KickLengths,
        b \in Bins, m \in {0, EntropyUnit}}

\* Arguments of get_timestep_bin: every unsigned value up to twice TIMEBASE.
BinCalls == {[fn |-> "get_timestep_bin", dti |-> d, ret |-> NoReq] : d \in 0 .. (2 * TIMEBASE)}

InitPure ==
    /\ NoTimeline
    /\ call \in BinCalls \cup KickCalls

\* bin = get_timestep_bin(dti)
CallTimestepBin ==
    /\ call.fn = "get_timestep_bin"
    /\ call.ret = NoReq
    /\ call' = [call EXCEPT !.ret = get_timestep_bin(call.dti)]
    /\ UNCHANGED <<timeline, detail, threads, ranks, NumForceUpdate>>

\* do_the_short_range_kick(i, tistart, tiend) on a gas particle
CallGasKick ==
    /\ call.fn = "do_the_short_range_kick"
    /\ call.ret = NoReq
    /\ LET g == GasKick(call.Entropy, call.DtEntropy, call.dti, call.TimeBin, call.minentropy)
       IN call' = [call EXCEPT !.Entropy = g.Entropy, !.DtEntropy = g.DtEntropy, !.ret = 0]
    /\ UNCHANGED <<timeline, detail, threads, ranks, NumForceUpdate>>

NextPure ==
    \/ CallTimestepBin
    \/ CallGasKick

SpecPure == InitPure /\ [][NextPure]_vars

\* The registry of a rank with at most one populated bin.
SparseCounts == {[b \in Bins |-> 0]} \cup {[b \in Bins |-> IF b = n THEN 1 ELSE 0] : n \in Bins}

\* A direct call find_next_kick(Ti_Current) for any argument, snapshot bits
\* included, and any bin populations: every population on the first rank, at
\* most one populated bin on the second, none on the others.
InitKick ==
    /\ Ti_Current \in 0 .. ((MaxSnap + 1) * TIMEBASE - 1)
    /\ \E first \in [Bins -> 0 .. 1], second \in SparseCounts :
          TimeBinCount = [r \in Ranks |-> IF r = 1 THEN first
                                          ELSE IF r = 2 THEN second
                                          ELSE [b \in Bins |-> 0]]
    /\ P = [i \in Particles |-> [TimeBin |-> 0, Ti_begstep |-> 0, Ti_kick |-> 0]]
    /\ PM_Ti = [start |-> 0, step |-> 0]
    /\ TimeBinCountType = [r \in Ranks |-> [ty \in Types |-> [b \in Bins |-> 0]]]
    /\ TimeBinActive = ActiveMask(0)
    /\ ActiveParticle = [r \in Ranks |-> << >>]
    /\ pc = "find"
    /\ kick_arg = NoReq
    /\ bin_req = [i \in Particles |-> NoReq]
    /\ bin_old = [i \in Particles |-> NoReq]
    /\ sr_kick = [i \in Particles |-> << >>]
    /\ lr_kick = << >>
    /\ adv = NoCall
    /\ full_kick = NoCall
    /\ ForceEqualTimesteps = FALSE
    /\ ti_min = [r \in Ranks |-> NoReq]
    /\ ti_min_glob = TIMEBASE
    /\ omp_todo = [r \in Ranks |-> {}]
    /\ omp_thread = [r \in Ranks |-> [t \in Threads |-> Idle]]
    /\ rank_pc = [r \in Ranks |-> "lockstep"]
    /\ allreduce = NoContribution
    /\ rank_got = [r \in Ranks |-> NothingGot]
    /\ NumForceUpdate = [r \in Ranks |-> NoReq]
    /\ call = NoCall

SpecKick == InitKick /\ [][FindNextKick /\ UNCHANGED <<detail, threads, ranks, NumForceUpdate, call>>]_vars

(* ------------------------- state predicates --------------------------- *)
\* The run has not been ended by endrun.
Running == pc \notin {"endrun_badstep", "endrun_kick"}
\* The first advance_and_find_timesteps has given every particle a bin.
Started == \A i \in Particles : P[i].TimeBin >= 1
\* advance_and_find_timesteps has just returned.
AfterAdvance == pc \in {"find", "halfkick"} /\ \E i \in Particles : bin_req[i] # NoReq
Populated(b) == \E r \in Ranks : TimeBinCount[r][b] > 0
IsPow2(n) == \E k \in 0 .. TimeBaseBits : n = Pow2(k)
Sum6(f) == f[0] + f[1] + f[2] + f[3] + f[4] + f[5]
RECURSIVE SumBins(_, _)
SumBins(f, b) == IF b < 0 THEN 0 ELSE f[b] + SumBins(f, b - 1)
RECURSIVE SumActiveBins(_, _)
SumActiveBins(f, b) ==
    IF b < 0 THEN 0
    ELSE (IF TimeBinActive[b] = 1 THEN f[b] ELSE 0) + SumActiveBins(f, b - 1)

(* ------------------------------ claims -------------------------------- *)

\* C1: at every point between driver calls of a run that has not been ended,
\* every particle has 0 <= Ti_begstep <= Ti_Current <= Ti_begstep + step of
\* its bin (step 0 for bin 0).
C1_StepBracketsCurrent ==
    Running =>
        \A i \in Particles :
            /\ 0 <= P[i].Ti_begstep
            /\ P[i].Ti_begstep <= Ti_Current
            /\ Ti_Current <= P[i].Ti_begstep + BinStep(P[i].TimeBin)

\* C1 witness: past the start-up, a particle strictly inside its step while
\* another one sits on its step boundary.
C1_Witness ==
    /\ Running /\ pc = "advance" /\ Ti_Current > 0
    /\ \E i, j \in Particles :
          /\ P[i].Ti_begstep < Ti_Current
          /\ Ti_Current < P[i].Ti_begstep + BinStep(P[i].TimeBin)
          /\ Ti_Current = P[j].Ti_begstep + BinStep(P[j].TimeBin)

\* C2: after rebuild_activelist and after every later
\* advance_and_find_timesteps, on every rank TimeBinCount[b] is the number of
\* local particles in bin b, the counts add up to NumPart, and the six
\* per-type counts of a bin add up to TimeBinCount[b].
C2_BinAccounting ==
    (Running /\ pc # "setup") =>
        \A r \in Ranks :
            /\ \A b \in Bins : TimeBinCount[r][b] = CountInBin(r, b)
            /\ SumBins(TimeBinCount[r], TIMEBINS - 1) = Len(LocalParticles(r))
            /\ \A b \in Bins :
                  Sum6([ty \in Types |-> TimeBinCountType[r][ty][b]]) = TimeBinCount[r][b]

\* C2 witness: advance_and_find_timesteps has just moved two particles of one
\* rank out of their bins into two different bins.
C2_Witness ==
    /\ AfterAdvance /\ Ti_Current > 0
    /\ \E i, j \in Particles :
          /\ i # j /\ RankOf(i) = RankOf(j)
          /\ bin_old[i] # NoReq /\ bin_old[j] # NoReq
          /\ P[i].TimeBin # bin_old[i] /\ P[j].TimeBin # bin_old[j]
          /\ P[i].TimeBin # P[j].TimeBin

\* C3 as stated: at every point between driver calls every listed particle is
\* in an active bin and the list length is the sum of TimeBinCount over the
\* active bins.
C3_ActiveListAgreement_AllStates ==
    Running =>
        \A r \in Ranks :
            /\ \A k \in 1 .. NumActiveParticle(r) :
                  TimeBinActive[P[ActiveParticle[r][k]].TimeBin] = 1
            /\ NumActiveParticle(r) = SumActiveBins(TimeBinCount[r], TIMEBINS - 1)

\* C3 amended: the agreement holds at every point between driver calls except
\* between update_active_timebins and the rebuild_activelist that follows it.
C3_ActiveListAgreement ==
    (Running /\ pc # "rebuild") =>
        \A r \in Ranks :
            /\ \A k \in 1 .. NumActiveParticle(r) :
                  TimeBinActive[P[ActiveParticle[r][k]].TimeBin] = 1
            /\ NumActiveParticle(r) = SumActiveBins(TimeBinCount[r], TIMEBINS - 1)

\* C3 witness: advance_and_find_timesteps has just moved a listed particle to
\* another bin while some bin is inactive.
C3_Witness ==
    /\ AfterAdvance /\ Ti_Current > 0
    /\ \E b \in Bins : TimeBinActive[b] = 0
    /\ \E i \in AllActive : P[i].TimeBin # bin_old[i]

\* C4: when an active particle in bin binold asks for a bin above binold, its
\* final bin is the largest bin between binold and the requested one that is
\* active or is binold itself; so a particle moves up only into an active bin.
C4_UpwardGuard ==
    [][pc = "advance" =>
          \A i \in Particles :
              bin_req'[i] > P[i].TimeBin =>
                  /\ P'[i].TimeBin =
                        Max({b \in P[i].TimeBin .. bin_req'[i] :
                                TimeBinActive[b] = 1 \/ b = P[i].TimeBin})
                  /\ P'[i].TimeBin > P[i].TimeBin => TimeBinActive[P'[i].TimeBin] = 1]_vars

\* C4 witness: a particle in bin 3 asked for bin 6 while only bins 0..4 were
\* active, and is now in bin 4.
C4_Witness ==
    /\ AfterAdvance
    /\ TimeBinActive = [b \in Bins |-> IF b <= 4 THEN 1 ELSE 0]
    /\ \E i \in Particles : bin_old[i] = 3 /\ bin_req[i] = 6 /\ P[i].TimeBin = 4

\* C8: at every point between driver calls every particle's Ti_begstep is a
\* multiple of the step of its bin.
C8_StepAligned ==
    Running => \A i \in Particles : P[i].Ti_begstep % Pow2(P[i].TimeBin) = 0

\* C8 witness: a particle has just been moved to a higher bin and to a lower
\* bin another one, past the start-up.
C8_Witness ==
    /\ AfterAdvance /\ Ti_Current > 0
    /\ \E i, j \in Particles :
          /\ bin_old[i] # NoReq /\ P[i].TimeBin > bin_old[i]
          /\ bin_old[j] # NoReq /\ P[j].TimeBin < bin_old[j]
          /\ P[i].Ti_begstep = Ti_Current /\ P[j].Ti_begstep = Ti_Current

\* C9: a particle's TimeBin changes only in advance_and_find_timesteps, only
\* when Ti_Current is the end of the particle's step, and only to a smaller or
\* an active bin; a particle outside the active lists keeps TimeBin and
\* Ti_begstep.
C9_MigrationAtOwnBoundary ==
    [][\A i \in Particles :
          /\ P'[i].TimeBin # P[i].TimeBin =>
                /\ pc = "advance"
                /\ Ti_Current = P[i].Ti_begstep + BinStep(P[i].TimeBin)
                /\ \/ P'[i].TimeBin < P[i].TimeBin
                   \/ TimeBinActive[P'[i].TimeBin] = 1
          /\ i \notin AllActive =>
                /\ P'[i].TimeBin = P[i].TimeBin
                /\ P'[i].Ti_begstep = P[i].Ti_begstep]_vars

\* C9 witness: one particle has just been moved to a lower bin while another
\* one was not in the active list.
C9_Witness ==
    /\ AfterAdvance /\ Ti_Current > 0
    /\ \E i, j \in Particles :
          /\ bin_old[i] # NoReq /\ P[i].TimeBin < bin_old[i] /\ P[i].TimeBin >= 1
          /\ bin_old[j] = NoReq /\ P[j].Ti_begstep < Ti_Current

\* The ticks after ti that are a multiple of the step of a populated bin.
SyncTicksAfter(ti) ==
    {t \in (ti + 1) .. (ti + TIMEBASE) : \E i \in Particles : t % Pow2(P[i].TimeBin) = 0}

\* C7: with every particle in a fixed bin >= 1, find_next_kick goes from a
\* tick to the next larger tick that is a multiple of 2^b for a populated bin
\* b, so the loop visits exactly those ticks in increasing order; the active
\* lists hold exactly the particles whose 2^b divides the tick, and
\* advance_and_find_timesteps gives exactly those one short-range kick over one
\* step of their bin and leaves the others alone.  With bins 5 and 3 only,
\* every tick visited is a multiple of 8.
C7_FixedBinsSchedule ==
    [][Started =>
          /\ pc = "find" => Ti_Current' = Min(SyncTicksAfter(Ti_Current))
          /\ pc = "rebuild" =>
                AllActive' = {i \in Particles : Ti_Current % Pow2(P[i].TimeBin) = 0}
          /\ pc = "advance" =>
                \A i \in Particles :
                    IF Ti_Current % Pow2(P[i].TimeBin) = 0
                    THEN /\ P'[i].TimeBin = P[i].TimeBin
                         /\ P'[i].Ti_begstep = P[i].Ti_begstep + Pow2(P[i].TimeBin)
                         /\ P'[i].Ti_begstep = Ti_Current
                         /\ P'[i].Ti_kick \in {Ti_Current,
                                               Ti_Current + Pow2(P[i].TimeBin) \div 2}
                    ELSE P'[i] = P[i]
          /\ {P[i].TimeBin : i \in Particles} = {3, 5} => Ti_Current' % 8 = 0]_vars

\* C7 witness: one particle in bin 5 and one in bin 3; the loop is at tick 32
\* after the kicks there: the bin-3 particle has completed four steps of 8,
\* the bin-5 particle one step of 32, and both were kicked at this tick.
C7_Witness ==
    /\ AfterAdvance /\ Ti_Current = 32
    /\ {P[i].TimeBin : i \in Particles} = {3, 5}
    /\ \A i \in Particles : bin_old[i] = P[i].TimeBin /\ P[i].Ti_begstep = 32

\* The bins n >= 1 that hold a particle on some rank.
PopulatedBins == {n \in 1 .. (TIMEBINS - 1) : Populated(n)}

\* C5: with bin 0 empty on every rank, find_next_kick(Ti_Current) is the
\* least, over the populated bins n >= 1, of (Ti / 2^n) * 2^n + 2^n taken on
\* the lower bits of Ti_Current, plus the snapshot bits of Ti_Current; it is
\* greater than Ti_Current and a multiple of 2^n for a populated bin n.
C5_NextKickIsLeastCandidate ==
    (pc = "update" /\ ~Populated(0) /\ PopulatedBins # {}) =>
        /\ Ti_Current =
              Min({(kick_arg - (kick_arg % TIMEBASE))
                     + (((kick_arg % TIMEBASE) \div (2 ^ n)) * (2 ^ n)) + (2 ^ n) :
                   n \in PopulatedBins})
        /\ Ti_Current > kick_arg
        /\ \E n \in PopulatedBins : Ti_Current % (2 ^ n) = 0

\* C5 witness: a call with nonzero snapshot bits and nonzero lower bits, bin
\* 0 empty, two populated bins on different ranks, and a result that is a
\* multiple of the step of the smaller one only.
C5_Witness ==
    /\ pc = "update" /\ ~Populated(0)
    /\ kick_arg >= TIMEBASE /\ kick_arg % TIMEBASE # 0
    /\ \E n, m \in PopulatedBins :
          /\ n < m /\ TimeBinCount[1][m] > 0 /\ TimeBinCount[2][n] > 0
          /\ TimeBinCount[1][n] = 0
          /\ Ti_Current % Pow2(n) = 0 /\ Ti_Current % Pow2(m) # 0

\* C6: with bin 0 populated, find_next_kick(Ti_Current) returns exactly
\* Ti_Current, whatever the snapshot bits of Ti_Current and whatever other
\* bins are populated.
C6_ImmediateSync ==
    (pc = "update" /\ Populated(0)) => Ti_Current = kick_arg

\* C10: after the first advance_and_find_timesteps PM_step is a power of two
\* and PM_start is a multiple of PM_step, whatever power-of-two long-range
\* steps are returned at the PM boundaries, growing ones included.
C10_PMStepAligned ==
    (Running /\ Started) =>
        /\ IsPow2(PM_Ti.step)
        /\ PM_Ti.start % PM_Ti.step = 0

\* C11: after the first advance_and_find_timesteps the step 2^TimeBin of
\* every particle divides PM_step, also for a particle that was inactive at
\* a PM boundary where the PM step shrank.
C11_BinStepDividesPMStep ==
    (Running /\ Started) =>
        \A i \in Particles : PM_Ti.step % Pow2(P[i].TimeBin) = 0

\* A call of advance_and_find_timesteps is under way.
InAdvance == adv # NoCall

\* C12: inside advance_and_find_timesteps the short-range kicks come first,
\* in the particle loop; at a PM boundary the long-range kick is applied
\* once, after the short-range kicks of all active particles and after a
\* bad-step check that found nothing, over
\* [get_kick_ti(PM_start, PM_step), get_kick_ti(PM_start + PM_step, PM_step_new)]
\* (ending at PM_start + PM_step with do_half_kick), with PM_start and PM_step
\* still the old ones; only then PM_start := PM_start + PM_step and
\* PM_step := PM_step_new.  Off a PM boundary the call applies no long-range
\* kick and leaves PM_start and PM_step alone.
C12_PMBoundaryOrder ==
    [][InAdvance =>
          /\ sr_kick' # sr_kick => lr_kick = << >> /\ PM_Ti' = PM_Ti /\ lr_kick' = lr_kick
          /\ lr_kick' # lr_kick =>
                /\ Ti_Current = PM_Ti.start + PM_Ti.step
                /\ \A i \in AllActive : Len(sr_kick[i]) = 1
                /\ \A r \in Ranks : adv.badstepsizecount[r] = 0
                /\ \A i \in AllActive : bin_req[i] >= 1
                /\ lr_kick = << >>
                /\ lr_kick' =
                      << <<get_kick_ti(PM_Ti.start, PM_Ti.step),
                           IF adv.do_half_kick
                           THEN PM_Ti.start + PM_Ti.step
                           ELSE get_kick_ti(PM_Ti.start + PM_Ti.step,
                                            adv.new_PM_Ti_step)>> >>
                /\ PM_Ti' = PM_Ti
          /\ PM_Ti' # PM_Ti =>
                /\ Len(lr_kick) = 1 /\ lr_kick' = lr_kick
                /\ Ti_Current = PM_Ti.start + PM_Ti.step
                /\ PM_Ti' = [start |-> PM_Ti.start + PM_Ti.step,
                             step  |-> adv.new_PM_Ti_step]
          /\ adv' = NoCall =>
                IF lr_kick = << >>
                THEN Ti_Current # PM_Ti.start + PM_Ti.step
                ELSE PM_Ti.start = Ti_Current /\ PM_Ti.step = adv.new_PM_Ti_step]_vars

\* C12 witness: past the start-up, at a PM boundary that is also the end of
\* a particle's step, a full long-range kick has been applied after the
\* short-range kicks, the PM step is about to change and PM_start is still
\* the old one.
C12_Witness ==
    /\ pc = "adv_pmset" /\ Ti_Current > 0
    /\ ~adv.do_half_kick /\ adv.new_PM_Ti_step > PM_Ti.step
    /\ Len(lr_kick) = 1 /\ PM_Ti.start + PM_Ti.step = Ti_Current
    /\ \E i \in AllActive : Len(sr_kick[i]) = 1 /\ P[i].TimeBin # bin_old[i]

CoverCount(kicks, t) ==
    Cardinality({k \in 1 .. Len(kicks) : kicks[k][1] <= t /\ t < kicks[k][2]})
\* Two lists of kicks cover the same ticks the same number of times.
SameCover(kicks, other) ==
    \A t \in 0 .. (MaxStepTick + 2 * TIMEBASE) : CoverCount(kicks, t) = CoverCount(other, t)
\* apply_half_kick has followed a call with do_half_kick at this sync point.
AfterHalfKick == pc = "find" /\ full_kick # NoCall
\* The half kick and the full kick leave the same timeline and kick every
\* particle over the same ticks.
SameAsFullKick ==
    /\ \A i \in Particles :
          /\ P[i].TimeBin = full_kick.P[i].TimeBin
          /\ P[i].Ti_begstep = full_kick.P[i].Ti_begstep
          /\ SameCover(sr_kick[i], full_kick.sr_kick[i])
          /\ \A t \in 0 .. (MaxStepTick + 2 * TIMEBASE) : CoverCount(sr_kick[i], t) <= 1
    /\ PM_Ti = full_kick.PM_Ti
    /\ SameCover(lr_kick, full_kick.lr_kick)

\* C14 as stated: at any sync point, advance_and_find_timesteps(1) followed by
\* apply_half_kick kicks every active particle (short-range) and all particles
\* (long-range) over the same ticks, each once, as advance_and_find_timesteps(0)
\* would, and leaves the same TimeBin, Ti_begstep, PM_start and PM_step.
C14_SnapshotRoundTrip == AfterHalfKick => SameAsFullKick

\* C15: apply_half_kick applies one short-range kick over
\* [Ti_begstep, Ti_begstep + 2^TimeBin / 2) to every active particle and none to
\* the others, one long-range kick over [PM_start, PM_start + PM_step / 2), and
\* leaves Ti_begstep, TimeBin, PM_Ti, the bin counts, the active mask and the
\* active list as they were.
C15_HalfKickFrame ==
    [][pc = "halfkick" =>
         /\ \A i \in Particles :
               /\ sr_kick'[i] =
                     IF TimeBinActive[P[i].TimeBin] = 1
                     THEN Append(sr_kick[i],
                                 <<P[i].Ti_begstep,
                                   P[i].Ti_begstep + (Pow2(P[i].TimeBin) \div 2)>>)
                     ELSE sr_kick[i]
               /\ P'[i].Ti_begstep = P[i].Ti_begstep
               /\ P'[i].TimeBin = P[i].TimeBin
         /\ lr_kick' = Append(lr_kick, <<PM_Ti.start, PM_Ti.start + (PM_Ti.step \div 2)>>)
         /\ PM_Ti' = PM_Ti
         /\ TimeBinCount' = TimeBinCount
         /\ TimeBinCountType' = TimeBinCountType
         /\ TimeBinActive' = TimeBinActive
         /\ ActiveParticle' = ActiveParticle]_vars

\* C15 witness: apply_half_kick has returned past the start-up, having kicked
\* a particle with a step of 4 ticks or more and left another particle alone.
C15_Witness ==
    /\ AfterHalfKick /\ Ti_Current > 0
    /\ Len(lr_kick) >= 1
    /\ lr_kick[Len(lr_kick)] = <<PM_Ti.start, PM_Ti.start + (PM_Ti.step \div 2)>>
    /\ \E i, j \in Particles :
          /\ P[i].TimeBin >= 2 /\ Len(sr_kick[i]) = 2
          /\ sr_kick[i][2] = <<P[i].Ti_begstep, P[i].Ti_begstep + (Pow2(P[i].TimeBin) \div 2)>>
          /\ sr_kick[j] = << >>

\* The least value of the timestep selector over the active particles of all ranks.
LeastSelectorDti == Min({SelectorDti(i) : i \in AllActive})
\* The equalization loop and its all-reduce are over, in a call in which
\* every rank has active particles.
Equalized ==
    /\ ForceEqualTimesteps
    /\ pc \in {"omp_loop", "omp_done", "omp_endrun"}
    /\ \A r \in Ranks : ActiveParticle[r] # << >>

\* C16: with ForceEqualTimesteps, the step every rank uses for every active
\* particle is the least value of the timestep selector over the active
\* particles of all ranks, whatever the interleaving of the worker threads.
C16_EqualizedStepIsGlobalMin == Equalized => ti_min_glob = LeastSelectorDti

\* The particle loop of a call in which every rank has active particles is over.
LoopsOver ==
    /\ pc \in {"omp_done", "omp_endrun"}
    /\ \A r \in Ranks : ActiveParticle[r] # << >>
\* The step the particle loop run by one thread uses for particle i.
SequentialDti(i) ==
    round_down_power_of_two(IF ForceEqualTimesteps THEN LeastSelectorDti ELSE SelectorDti(i))

\* C18: the threads of the parallel loops share only the bin counts, so every
\* interleaving ends in the state of a sequential run: the equalized minimum
\* of each rank, the bad-step count of each rank, the bin of each particle and
\* the bin counts.
C18_SameAsSequential ==
    LoopsOver =>
        \A r \in Ranks :
           /\ ForceEqualTimesteps => ti_min[r] = Min({SelectorDti(i) : i \in ActiveSet(r)})
           /\ adv.badstepsizecount[r] =
                 Cardinality({i \in ActiveSet(r) : get_timestep_bin(SequentialDti(i)) < 1})
           /\ \A i \in ActiveSet(r) :
                 P[i].TimeBin = get_timestep_bin(SequentialDti(i))
                 \/ (get_timestep_bin(SequentialDti(i)) > P[i].TimeBin
                        /\ TimeBinActive[get_timestep_bin(SequentialDti(i))] = 0)
           /\ \A b \in Bins :
                 TimeBinCount[r][b] =
                    Cardinality({k \in 1 .. Len(OmpLocal(r)) : P[OmpLocal(r)[k]].TimeBin = b})

\* The position of a rank is past the all-reduce k.
PastAllreduce(r, k) == rank_got[r][k] # NoReq
\* The selector's value for the particle of rank q.
RankSelectorDti(q) == get_timestep_ti(adv.dti_raw[q], adv.new_PM_Ti_step)

\* C17: every rank leaves find_next_kick with the least of the ranks' local
\* candidates, the equalization with the least of the ranks' local minima and
\* the bad-step check with the same verdict, which is "bad" exactly when some
\* rank counted a bad step; and a rank is past an all-reduce only when every
\* rank has reached it and handed in its value.
C17_CrossRankAgreement ==
    \A r \in Ranks :
       /\ \A k \in Collectives :
             PastAllreduce(r, k) =>
                /\ \A q \in Ranks : allreduce[k][q] # NoReq
                /\ \A q \in Ranks : PastAllreduce(q, k) => rank_got[q][k] = rank_got[r][k]
       /\ PastAllreduce(r, "kick") =>
             /\ \A q \in Ranks : rank_pc[q] # "find"
             /\ \A q \in Ranks : rank_got[r]["kick"] <= LocalNextKick(TimeBinCount[q], Ti_Current)
             /\ \E q \in Ranks : rank_got[r]["kick"] = LocalNextKick(TimeBinCount[q], Ti_Current)
       /\ PastAllreduce(r, "equal") =>
             /\ \A q \in Ranks : rank_pc[q] \notin {"find", "find_wait", "equal"}
             /\ \A q \in Ranks : rank_got[r]["equal"] <= RankSelectorDti(q)
             /\ \E q \in Ranks : rank_got[r]["equal"] = RankSelectorDti(q)
       /\ PastAllreduce(r, "bad") =>
             /\ \A q \in Ranks : rank_pc[q] \notin {"find", "find_wait", "equal", "equal_wait", "loop"}
             /\ (rank_got[r]["bad"] # 0) <=> (\E q \in Ranks : RankBadCount(q) # 0)
             /\ rank_pc[r] = (IF \E q \in Ranks : RankBadCount(q) # 0
                              THEN "endrun_badstep" ELSE "pm")

\* C17 witness: one rank has left the bad-step all-reduce with the verdict
\* "bad" while another is still in it, the ranks having handed different
\* candidates and different local minima to the earlier all-reduces, and only
\* one of them having counted a bad step.
C17_Witness ==
    \E r, q \in Ranks :
       /\ rank_pc[r] = "endrun_badstep" /\ rank_pc[q] = "bad_wait"
       /\ allreduce["kick"][r] # allreduce["kick"][q]
       /\ allreduce["equal"][r] # NoReq
       /\ allreduce["equal"][r] # allreduce["equal"][q]
       /\ allreduce["bad"][r] # allreduce["bad"][q]

\* C19: update_active_timebins(next_kick) marks bin 0 active, marks a bin b of
\* 1 .. TIMEBINS-1 active exactly when next_kick mod 2^b = 0, and returns the
\* sum of TimeBinCount[b] over the bins it marked active.
C19_ActiveBinsAndForceUpdates ==
    (\A r \in Ranks : NumForceUpdate[r] # NoReq) =>
        /\ TimeBinActive[0] = 1
        /\ \A b \in 1 .. (TIMEBINS - 1) :
              /\ TimeBinActive[b] \in {0, 1}
              /\ TimeBinActive[b] = 1 <=> Ti_Current % (2 ^ b) = 0
        /\ \A r \in Ranks :
              NumForceUpdate[r] = SumOver(TimeBinCount[r], {b \in Bins : TimeBinActive[b] = 1})

\* C19 witness: a call with snapshot bits in its argument that marked some
\* bins above bin 0 active and some not, on counts where bin 0 and both kinds
\* of bins are populated.
C19_Witness ==
    /\ \A r \in Ranks : NumForceUpdate[r] # NoReq
    /\ Ti_Current > TIMEBASE
    /\ TimeBinCount[1][0] > 0
    /\ \E b, c \in 1 .. (TIMEBINS - 1) :
          /\ TimeBinActive[b] = 1 /\ TimeBinCount[1][b] > 0
          /\ TimeBinActive[c] = 0 /\ TimeBinCount[1][c] > 0
    /\ NumForceUpdate[1] > TimeBinCount[1][0]
    /\ NumForceUpdate[1] < SumOver(TimeBinCount[1], Bins)

\* The local particles of rank r whose bin is marked active.
ActiveLocals(r) == {i \in Particles : RankOf(i) = r /\ TimeBinActive[P[i].TimeBin] # 0}
\* The registry holds the exact populations and the exact active lists.
RegistryExact ==
    \A r \in Ranks :
       /\ \A b \in Bins :
             /\ TimeBinCount[r][b] =
                   Cardinality({i \in Particles : RankOf(i) = r /\ P[i].TimeBin = b})
             /\ \A ty \in Types :
                   TimeBinCountType[r][ty][b] =
                      Cardinality({i \in Particles : /\ RankOf(i) = r
                                                     /\ TypeOf(i) = ty
                                                     /\ P[i].TimeBin = b})
       /\ \A k \in 1 .. (Len(ActiveParticle[r]) - 1) :
             ActiveParticle[r][k] < ActiveParticle[r][k + 1]
       /\ {ActiveParticle[r][k] : k \in 1 .. Len(ActiveParticle[r])} = ActiveLocals(r)

\* C20: for any particle bins and any mask, rebuild_activelist leaves the
\* exact per-bin and per-type counts and, as ActiveParticle, the increasing
\* list without duplicates of exactly the local particles whose bin is
\* active; a call on a registry that is already so changes nothing in it.
C20_RebuildExactAndIdempotent ==
    [][pc = "rebuild" =>
          /\ RegistryExact'
          /\ RegistryExact => /\ TimeBinCount' = TimeBinCount
                              /\ TimeBinCountType' = TimeBinCountType
                              /\ ActiveParticle' = ActiveParticle
          /\ P' = P /\ TimeBinActive' = TimeBinActive]_vars

\* C20 witness: rebuild_activelist is about to be called again on the registry
\* an earlier call left, with two local particles in different bins of which
\* one is active, and bin 0 not marked active.
C20_Witness ==
    /\ pc = "rebuild"
    /\ RegistryExact
    /\ TimeBinActive[0] = 0
    /\ \E i, j \in Particles :
          /\ RankOf(i) = RankOf(j)
          /\ P[i].TimeBin # P[j].TimeBin
          /\ ActiveParticle[RankOf(i)] = <<j>>

\* get_timestep_bin has returned.
BinReturned == call # NoCall /\ call.fn = "get_timestep_bin" /\ call.ret # NoReq

\* C22 as stated: get_timestep_bin(2^b) = b for every bin b of 0 .. TIMEBINS-1,
\* and get_timestep_bin(0) = 0.
C22_BinOfPowerOfTwo_AllBins ==
    BinReturned =>
        /\ call.dti = 0 => call.ret = 0
        /\ \A b \in 0 .. (TIMEBINS - 1) : call.dti = 2 ^ b => call.ret = b

\* C22, amended: get_timestep_bin(2^b) = b for every bin b of 1 .. TIMEBINS-1,
\* and get_timestep_bin(0) = 0.
C22_BinOfPowerOfTwo ==
    BinReturned =>
        /\ call.dti = 0 => call.ret = 0
        /\ \A b \in 1 .. (TIMEBINS - 1) : call.dti = 2 ^ b => call.ret = b

\* C22 witness: get_timestep_bin(TIMEBASE) has returned the top bin.
C22_Witness == BinReturned /\ call.dti = TIMEBASE /\ call.ret = TIMEBINS - 1

\* A short-range kick of a gas particle has returned.
GasKicked == call # NoCall /\ call.fn = "do_the_short_range_kick" /\ call.ret # NoReq

\* C21 as stated: after a short-range kick of a gas particle whose Entropy was
\* not negative, Entropy >= 0 and
\* |DtEntropy * dloga_for_bin(TimeBin) / 2| <= 0.5 * Entropy.
C21_EntropyBounds_BothSigns ==
    GasKicked /\ call.Entropy0 >= 0 =>
        /\ call.Entropy >= 0
        /\ call.DtEntropy * get_dloga_for_bin(call.TimeBin) >= 0 - call.Entropy
        /\ call.DtEntropy * get_dloga_for_bin(call.TimeBin) <= call.Entropy

\* C21, amended: after a short-range kick of a gas particle whose Entropy was
\* not negative, Entropy >= 0 and
\* DtEntropy * dloga_for_bin(TimeBin) / 2 >= -0.5 * Entropy; a positive rate
\* is not bounded.
C21_EntropyBounds ==
    GasKicked /\ call.Entropy0 >= 0 =>
        /\ call.Entropy >= 0
        /\ call.DtEntropy * get_dloga_for_bin(call.TimeBin) >= 0 - call.Entropy

\* C21 witness: a kick whose cooling rate was cut to the bound of the next step.
C21_Witness ==
    /\ GasKicked
    /\ call.Entropy > 0
    /\ call.DtEntropy < 0
    /\ call.DtEntropy * get_dloga_for_bin(call.TimeBin) = 0 - call.Entropy
    /\ call.dti > 0

\* The particle loop of advance_and_find_timesteps runs in this step.
ParticleLoopStep == pc = "adv_loop" /\ pc' # "adv_loop"

\* C23: for each active particle whose final bin is a bin, the particle loop
\* applies exactly one short-range kick, from the midpoint of the old step
\* get_kick_ti(Ti_begstep, dti_old) to the midpoint of the new step
\* get_kick_ti(Ti_begstep + dti_old, dti_new), with dti_new the step of the bin
\* after the upward guard, or to Ti_begstep + dti_old when do_half_kick; and
\* Ti_begstep advances by exactly dti_old. Other particles get no kick.
C23_OneKickPerActiveParticle ==
    [][ParticleLoopStep =>
          \A i \in Particles :
             IF i \in AllActive
             THEN P'[i].TimeBin \in Bins =>
                    LET dti_old == BinStep(P[i].TimeBin)
                        dti_new == BinStep(P'[i].TimeBin)
                        tistart == get_kick_ti(P[i].Ti_begstep, dti_old)
                        tiend == IF adv.do_half_kick
                                 THEN P[i].Ti_begstep + dti_old
                                 ELSE get_kick_ti(P[i].Ti_begstep + dti_old, dti_new)
                    IN  /\ sr_kick'[i] = Append(sr_kick[i], <<tistart, tiend>>)
                        /\ P'[i].Ti_begstep = P[i].Ti_begstep + dti_old
             ELSE /\ sr_kick'[i] = sr_kick[i]
                  /\ P'[i] = P[i]]_vars

\* C23 witness: the loop has kicked a particle of a bin above 0 whose
\* requested bin was lowered by the upward guard, to the midpoint of the step
\* of the bin it ended in.
C23_Witness ==
    /\ pc = "adv_reduce"
    /\ ~adv.do_half_kick
    /\ \E i \in AllActive :
          /\ bin_old[i] >= 1
          /\ bin_req[i] > P[i].TimeBin
          /\ P[i].TimeBin >= 1
          /\ Len(sr_kick[i]) = 1
          /\ sr_kick[i][1][2] = get_kick_ti(P[i].Ti_begstep, BinStep(P[i].TimeBin))

\* C24: the short-range kicks of every particle are contiguous: each kick of
\* advance_and_find_timesteps or apply_half_kick starts at the tick Ti_kick at
\* which the previous kick of the particle ended (0 before the first), so the
\* self-check Ti_kick == tistart never ends the run.
C24_KicksContiguous == pc # "endrun_kick"

\* C24 witness: advance_and_find_timesteps has kicked, without a mismatch, a
\* particle that had been kicked before and moved from one bin to another.
C24_Witness ==
    /\ pc = "find"
    /\ \E i \in Particles :
          /\ bin_old[i] # NoReq
          /\ bin_old[i] >= 1
          /\ P[i].TimeBin >= 1
          /\ P[i].TimeBin # bin_old[i]
          /\ P[i].Ti_begstep > 0
          /\ P[i].Ti_kick = get_kick_ti(P[i].Ti_begstep, BinStep(P[i].TimeBin))

\* The first advance_and_find_timesteps is about to return (no step was bad).
StartupDone == pc = "adv_return" /\ Ti_Current = 0

\* The start-up call is a PM boundary with every bin active and every
\* particle in the active list, in bin 0 with Ti_begstep = 0.
StartupFrame ==
    pc = "advance" /\ Ti_Current = 0 =>
        /\ is_PM_timestep(Ti_Current)
        /\ PM_Ti = [start |-> 0, step |-> 0]
        /\ \A b \in Bins : TimeBinActive[b] = 1
        /\ AllActive = Particles
        /\ \A i \in Particles : P[i].TimeBin = 0 /\ P[i].Ti_begstep = 0

\* What the start-up call has done when its kicks run to the midpoints of
\* the new steps (or, with closing, are the empty interval [0, 0)): one
\* short-range kick per particle, one long-range kick, Ti_begstep = 0 and
\* PM_start = 0.
StartupKicks(closing) ==
    /\ \A i \in Particles :
          /\ sr_kick[i] = << <<0, IF closing THEN 0 ELSE BinStep(P[i].TimeBin) \div 2>> >>
          /\ P[i].Ti_begstep = 0
    /\ lr_kick = << <<0, IF closing THEN 0 ELSE PM_Ti.step \div 2>> >>
    /\ PM_Ti.start = 0
    /\ PM_Ti.step = adv.new_PM_Ti_step

C27_BinsInRange == \A i \in Particles : P[i].TimeBin \in Bins

\* C26: no PM boundary is skipped: at every quiescent point of the driver
\* loop Ti_Current is at most PM_start + PM_step.
C26_NoPMBoundarySkipped == Running => Ti_Current <= PM_Ti.start + PM_Ti.step

\* The first advance_and_find_timesteps has returned and no step was bad.
FirstAdvanceDone == Running /\ (AfterAdvance \/ Ti_Current > 0)

\* Bin 0 holds no particle, in the registry of every rank and in P.
BinZeroEmpty ==
    /\ \A r \in Ranks : TimeBinCount[r][0] = 0
    /\ \A i \in Particles : P[i].TimeBin # 0

\* C28: in the driver loop, as long as no step is bad, bin 0 is empty after
\* the first advance_and_find_timesteps, every later find_next_kick returns a
\* tick greater than Ti_Current, and Ti_Current eventually reaches TIMEBASE
\* (unless a bad step ends the run).
C28_Progress ==
    /\ [](FirstAdvanceDone => BinZeroEmpty)
    /\ [][FirstAdvanceDone /\ pc = "find" /\ pc' = "update" => Ti_Current' > Ti_Current]_vars
    /\ <>(Ti_Current = TIMEBASE \/ pc = "endrun_badstep")

\* C28 witness: find_next_kick has brought the loop to TIMEBASE with a
\* particle in bin 1 and another in a higher bin.
C28_Witness ==
    /\ Ti_Current = TIMEBASE
    /\ pc = "update"
    /\ BinZeroEmpty
    /\ \E i, j \in Particles : P[i].TimeBin = 1 /\ P[j].TimeBin > 1

====
